---------------------------- MODULE Spec2Model ----------------------------
(***************************************************************************)
(* Model of the gridded dataset access and raster export code of PyOFS:    *)
(*   src/dataset/rtofs.py  RTOFS_Dataset (__init__, data, write_rasters,   *)
(*                         write_raster)                                   *)
(*   src/dataset/hfr.py    HFR_Range (__init__, get_datetime_indices,      *)
(*                         write_rasters, write_vector)                    *)
(*   src/main/write_daily_average.py  write_daily_average and the two      *)
(*                         functions it calls                              *)
(* RTOFS times are integer hours, HFR times integer minutes.  Strings that *)
(* are formatted or split (file names) are sequences of tokens, "." being  *)
(* a token of its own.                                                     *)
(***************************************************************************)
EXTENDS Integers, Sequences, FiniteSets, TLC

VARIABLES
    program,          \* which entry point this run exercises
    model_date,       \* RTOFS_Dataset.__init__ argument model_date
    model_datetime,   \* self.model_datetime
    source,           \* self.source
    time_interval,    \* self.time_interval
    netcdf_datasets,  \* self.netcdf_datasets : direction -> set of opened dataset names
    dataset_locks,    \* self.dataset_locks   : direction -> (dataset name -> holder, 0 = free)
    GLOBAL_LOCK,      \* module level lock (holder, 0 = free)
    ctor,             \* position of RTOFS_Dataset.__init__
    th,               \* per thread: position and locals of a data() call
    wr,               \* write_rasters / write_vector: position, arguments and loop locals
    variable_means,   \* the dict variable_means, in insertion order: <<name, field>> pairs
    tasks,            \* futures submitted to the ThreadPoolExecutor, in submission order
    files,            \* the output directory: path -> raster file
    written,          \* the writes this call has completed, in order
    hfr,              \* HFR_Range.__init__: position, arguments and the slice it keeps
    main              \* write_daily_average: position, arguments and the steps taken

rtofsVars == <<model_date, model_datetime, source, time_interval, netcdf_datasets,
               dataset_locks, GLOBAL_LOCK, ctor, th>>

exportVars == <<wr, variable_means, tasks, files, written, hfr>>

----------------------------------------------------------------------------
(* Bounds of the model                                                      *)

NumThreads == 2
MaxHour == 30
MaxSpeed == 3

Threads == 1..NumThreads
NoThread == 0

----------------------------------------------------------------------------
(* Module level tables of rtofs.py                                          *)

HoursPerDay == 24

Directions == <<"nowcast", "forecast">>

DATASET_STRUCTURE ==
    [s \in {"2ds", "3dz"} |->
        [d \in {"nowcast", "forecast"} |->
            IF s = "2ds" THEN <<"prog", "diag">>
                         ELSE <<"salt", "temp", "uvel", "vvel">>]]

DATA_VARIABLES ==
    [v \in {"salt", "temp", "u", "v", "ssh", "ice_coverage", "ice_thickness"} |->
        CASE v = "salt" -> [s \in {"2ds", "3dz"} |->
                               IF s = "2ds" THEN <<"prog", "sss">> ELSE <<"salt", "salinity">>]
          [] v = "temp" -> [s \in {"2ds", "3dz"} |->
                               IF s = "2ds" THEN <<"prog", "sst">> ELSE <<"temp", "temperature">>]
          [] v = "u"    -> [s \in {"2ds", "3dz"} |->
                               IF s = "2ds" THEN <<"prog", "u_velocity">> ELSE <<"uvel", "u">>]
          [] v = "v"    -> [s \in {"2ds", "3dz"} |->
                               IF s = "2ds" THEN <<"prog", "v_velocity">> ELSE <<"vvel", "v">>]
          [] OTHER      -> [s \in {"2ds"} |-> <<"diag", v>>]]

\* datetime.replace(hour=0, minute=0, second=0, microsecond=0)
TruncateToMidnight(t) == t - (t % HoursPerDay)

SeqToSet(s) == {s[i] : i \in 1..Len(s)}

----------------------------------------------------------------------------
(* RTOFS_Dataset.__init__                                                   *)

EmptyMap == [k \in {} |-> {}]

\* the (direction, dataset name) pairs the constructor tries to open, in order
OpenOrder(s) ==
    LET names(d) == DATASET_STRUCTURE[s][d]
        pairs(d) == [i \in 1..Len(names(d)) |-> <<d, names(d)[i]>>]
    IN  pairs(Directions[1]) \o pairs(Directions[2])

\* line 103-104: the per direction maps are created when the direction is entered
EnterDirection(map, d, empty) ==
    IF d \in DOMAIN map THEN map ELSE [k \in DOMAIN map \cup {d} |-> IF k = d THEN empty ELSE map[k]]

\* line 115: self.netcdf_datasets[forecast_direction][dataset_name] = dataset
StoreDataset(map, d, n) == [map EXCEPT ![d] = @ \cup {n}]

\* line 116: self.dataset_locks[forecast_direction][dataset_name] = threading.Lock()
StoreLockAlways(map, d, n, opened) ==
    [map EXCEPT ![d] = [k \in DOMAIN @ \cup {n} |-> IF k = n THEN NoThread ELSE @[k]]]

StoreLock(map, d, n, opened) ==
    IF opened
    THEN [map EXCEPT ![d] = [k \in DOMAIN @ \cup {n} |-> IF k = n THEN NoThread ELSE @[k]]]
    ELSE map

\* lines 102-118, one iteration of the inner loop: xarray.open_dataset succeeds
\* or raises OSError, which is caught and printed
OpenDataset ==
    /\ ctor.pc = "open"
    /\ ctor.next <= Len(OpenOrder(source))
    /\ LET d == OpenOrder(source)[ctor.next][1]
           n == OpenOrder(source)[ctor.next][2]
           nd == EnterDirection(netcdf_datasets, d, {})
           dl == EnterDirection(dataset_locks, d, EmptyMap)
       IN  \E opened \in BOOLEAN :
              /\ netcdf_datasets' = IF opened THEN StoreDataset(nd, d, n) ELSE nd
              /\ dataset_locks' = StoreLock(dl, d, n, opened)
    /\ ctor' = [ctor EXCEPT !.next = @ + 1]
    /\ UNCHANGED <<model_date, model_datetime, source, time_interval, GLOBAL_LOCK, th>>

\* lines 120-147
FinishConstruction ==
    /\ ctor.pc = "open"
    /\ ctor.next > Len(OpenOrder(source))
    /\ ctor' = [ctor EXCEPT !.pc =
                  IF ~ ({"nowcast", "forecast"} \subseteq DOMAIN netcdf_datasets)
                  THEN "KeyError"
                  ELSE IF Cardinality(netcdf_datasets["nowcast"])
                            + Cardinality(netcdf_datasets["forecast"]) > 0
                       THEN "constructed"
                       ELSE "NoDataError"]
    /\ UNCHANGED <<model_date, model_datetime, source, time_interval, netcdf_datasets,
                   dataset_locks, GLOBAL_LOCK, th>>

\* lines 82-101: state on entry of the dataset loop
InitObject(md, s, ti) ==
    /\ model_date = md
    /\ model_datetime = TruncateToMidnight(md)
    /\ source = s
    /\ time_interval = ti
    /\ netcdf_datasets = EmptyMap
    /\ dataset_locks = EmptyMap
    /\ GLOBAL_LOCK = NoThread
    /\ ctor = [pc |-> "open",
               next |-> IF ti = "daily" THEN 1 ELSE Len(OpenOrder(s)) + 1]

----------------------------------------------------------------------------
(* RTOFS_Dataset.data                                                       *)

\* lines 159-162
DataDirectionStrict(time, run) == IF time > run THEN "forecast" ELSE "nowcast"

DataDirection(time, run) == IF time >= run THEN "forecast" ELSE "nowcast"

\* lines 164-165
DataTime(time) == IF time_interval = "daily" THEN TruncateToMidnight(time) ELSE time

\* the guard taken by `with` on line 173
GuardGlobal(direction, dataset_name) == [kind |-> "global"]

GuardOf(direction, dataset_name) ==
    [kind |-> "dataset", direction |-> direction, name |-> dataset_name]

Holder(g) ==
    IF g.kind = "global" THEN GLOBAL_LOCK ELSE dataset_locks[g.direction][g.name]

\* threading.Lock.acquire blocks until the lock is free
CanAcquireUnguarded(g) == TRUE

CanAcquire(g) == Holder(g) = NoThread

SetHolder(g, t) ==
    IF g.kind = "global"
    THEN /\ GLOBAL_LOCK' = t
         /\ UNCHANGED dataset_locks
    ELSE /\ dataset_locks' = [dataset_locks EXCEPT ![g.direction][g.name] = t]
         /\ UNCHANGED GLOBAL_LOCK

\* lines 167-172 and 194-199: what a call does before it reaches the guard
\*   "lock"       the handle's guard is to be acquired
\*   "None"       line 197, the function falls off its end
\*   "ValueError" line 195 or 199
\*   "KeyError"   a failed dictionary lookup on line 170 or 173
DataEntry(variable, direction) ==
    IF direction \notin DOMAIN DATASET_STRUCTURE[source] THEN "ValueError"
    ELSE IF Cardinality(netcdf_datasets[direction]) = 0 THEN "None"
    ELSE IF variable \notin DOMAIN DATA_VARIABLES THEN "ValueError"
    ELSE IF source \notin DOMAIN DATA_VARIABLES[variable] THEN "KeyError"
    ELSE IF DATA_VARIABLES[variable][source][1] \notin DOMAIN dataset_locks[direction]
         THEN "KeyError"
    ELSE "lock"

Idle(outcome) == [pc |-> "idle", outcome |-> outcome]

\* lines 159-173 up to the `with` statement
DataCall(t, variable, time, crop) ==
    /\ ctor.pc = "constructed"
    /\ th[t].pc = "idle"
    /\ LET direction == DataDirection(time, model_datetime)
           entry == DataEntry(variable, direction)
       IN  th' = [th EXCEPT ![t] =
                    IF entry = "lock"
                    THEN [pc |-> "acquire",
                          direction |-> direction,
                          dataset_name |-> DATA_VARIABLES[variable][source][1],
                          variable_name |-> DATA_VARIABLES[variable][source][2],
                          query |-> time,
                          time |-> DataTime(time),
                          crop |-> crop]
                    ELSE Idle(entry)]
    /\ UNCHANGED <<model_date, model_datetime, source, time_interval, netcdf_datasets,
                   dataset_locks, GLOBAL_LOCK, ctor>>

\* line 173: entering the `with` block
DataAcquire(t) ==
    /\ th[t].pc = "acquire"
    /\ LET g == GuardOf(th[t].direction, th[t].dataset_name)
       IN  /\ CanAcquire(g)
           /\ SetHolder(g, t)
    /\ th' = [th EXCEPT ![t].pc = "read"]
    /\ UNCHANGED <<model_date, model_datetime, source, time_interval, netcdf_datasets, ctor>>

\* lines 174-192: the slice read; .sel raises KeyError for a time that is not
\* on the handle's time axis
DataRead(t) ==
    /\ th[t].pc = "read"
    /\ \E found \in BOOLEAN :
          th' = [th EXCEPT ![t] = [@ EXCEPT !.pc = "exit"] @@
                                  [result |-> IF found THEN "field" ELSE "KeyError"]]
    /\ UNCHANGED <<model_date, model_datetime, source, time_interval, netcdf_datasets,
                   dataset_locks, GLOBAL_LOCK, ctor>>

\* a `with` block that gave its guard back only on a normal return
DataReturnHoldsOnError(t) ==
    /\ th[t].pc = "exit"
    /\ IF th[t].result = "field"
       THEN SetHolder(GuardOf(th[t].direction, th[t].dataset_name), NoThread)
       ELSE UNCHANGED <<dataset_locks, GLOBAL_LOCK>>
    /\ th' = [th EXCEPT ![t] = Idle(th[t].result)]
    /\ UNCHANGED <<model_date, model_datetime, source, time_interval, netcdf_datasets, ctor>>

\* line 193 or a propagating exception: leaving the `with` block releases the guard
DataReturn(t) ==
    /\ th[t].pc = "exit"
    /\ SetHolder(GuardOf(th[t].direction, th[t].dataset_name), NoThread)
    /\ th' = [th EXCEPT ![t] = Idle(th[t].result)]
    /\ UNCHANGED <<model_date, model_datetime, source, time_interval, netcdf_datasets, ctor>>

----------------------------------------------------------------------------
(* Values: optional values, text, arrays, files                             *)

\* Python's None, an unbound local, and a raised exception
None == [none |-> TRUE]

Unbound == [unbound |-> TRUE]

Raised(exception) == [error |-> exception]

IsError(x) == "error" \in DOMAIN x

\* a string that is formatted or split: a sequence of tokens
Txt(tokens) == [text |-> tokens]

\* a 2-D array: a sequence of rows, each a sequence of cells.  A cell is a
\* symbolic value (a record), NaN standing for a missing value
Arr(rows) == [rows |-> rows]

NaN == [nan |-> TRUE]

Height(a) == Len(a.rows)

Width(a) == IF Len(a.rows) = 0 THEN 0 ELSE Len(a.rows[1])

\* the rows left in the order they have
RowsAsStored(a) == a

\* numpy.flipud
Flipud(a) == Arr([i \in 1..Len(a.rows) |-> a.rows[Len(a.rows) + 1 - i]])

\* ndarray.flatten (row major)
RECURSIVE FlattenRows(_)
FlattenRows(rows) == IF Len(rows) = 0 THEN <<>> ELSE rows[1] \o FlattenRows(Tail(rows))

Flatten(a) == FlattenRows(a.rows)

\* ndarray.astype(rasterio.float32), cell by cell
AsFloat32Cell(c) ==
    IF c = NaN THEN NaN
    ELSE IF "f32" \in DOMAIN c THEN c
    ELSE [f32 |-> c]

AsFloat32(a) ==
    Arr([i \in 1..Len(a.rows) |-> [j \in 1..Len(a.rows[i]) |-> AsFloat32Cell(a.rows[i][j])]])

\* rasterio.transform.from_origin(west, north, xsize, ysize)
FromOrigin(west, north, xsize, ysize) ==
    [west |-> west, north |-> north, xsize |-> xsize, ysize |-> ysize]

Min(S) == CHOOSE x \in S : \A y \in S : x <= y

Max(S) == CHOOSE x \in S : \A y \in S : x >= y

Abs(x) == IF x < 0 THEN -x ELSE x

\* default of the fill_value parameter
FillValue == -9999

ValidDrivers == {"GTiff", "GPKG", "AAIGrid"}

\* the dict `variable_means`: lookups and insertion ordered assignment
MeanKeys(vm) == {vm[i][1] : i \in 1..Len(vm)}

MeanOf(vm, name) == vm[CHOOSE i \in 1..Len(vm) : vm[i][1] = name][2]

PutMean(vm, name, value) ==
    IF name \in MeanKeys(vm)
    THEN [i \in 1..Len(vm) |-> IF vm[i][1] = name THEN <<name, value>> ELSE vm[i]]
    ELSE Append(vm, <<name, value>>)

\* numpy.arctan2 / numpy.sqrt over arrays: NaN in either component gives NaN
\* A cell holding the number k is [num |-> k]; a computed real number is the
\* interval [lo, hi] of whole degrees (or units) that holds it, lo = hi when
\* it is a whole number.
Num(k) == [num |-> k]

IsNum(cell) == "num" \in DOMAIN cell

Exactly(k) == [lo |-> k, hi |-> k]

\* the angle of (a, b), a >= 0 and b >= 0, measured from the second axis
QuadrantAngle(a, b) ==
    IF a = 0 THEN Exactly(0)
    ELSE IF b = 0 THEN Exactly(90)
    ELSE IF a = b THEN Exactly(45)
    ELSE IF a < b THEN [lo |-> 0, hi |-> 45]
    ELSE [lo |-> 45, hi |-> 90]

\* numpy.arctan2(x1, x2) in degrees: the angle whose tangent is x1 / x2, in
\* the quadrant of the signs of both arguments, from -180 to 180
arctan2(x1, x2) ==
    LET q == QuadrantAngle(Abs(x1), Abs(x2))
        upper == IF x2 >= 0 THEN q ELSE [lo |-> 180 - q.hi, hi |-> 180 - q.lo]
    IN  IF x1 >= 0 THEN upper ELSE [lo |-> -upper.hi, hi |-> -upper.lo]

\* numpy.sqrt of a non negative whole number
sqrt(n) ==
    LET root == CHOOSE k \in 0..n : k * k <= n /\ n < (k + 1) * (k + 1)
    IN  [lo |-> root, hi |-> IF root * root = n THEN root ELSE root + 1]

\* the arguments of arctan2 the other way round
DirValueFromFirstAxis(u, v) ==
    LET angle == arctan2(v, u) IN [lo |-> angle.lo + 180, hi |-> angle.hi + 180]

\* line 403 / 252: (numpy.arctan2(u_data, v_data) + numpy.pi) * (180 / numpy.pi)
DirValue(u, v) ==
    LET angle == arctan2(u, v) IN [lo |-> angle.lo + 180, hi |-> angle.hi + 180]

\* line 404 / 253: numpy.sqrt(numpy.square(u_data) + numpy.square(v_data))
MagValue(u, v) == sqrt(u * u + v * v)

\* NaN read as the number the fill value is
DirCellOfSentinel(u, v) ==
    IF IsNum(u) /\ IsNum(v) THEN DirValue(u.num, v.num)
    ELSE DirValue(IF IsNum(u) THEN u.num ELSE FillValue, IF IsNum(v) THEN v.num ELSE FillValue)

\* both operations are elementwise; NaN in either operand gives NaN
DirCell(u, v) ==
    IF u = NaN \/ v = NaN THEN NaN
    ELSE IF IsNum(u) /\ IsNum(v) THEN DirValue(u.num, v.num)
    ELSE [dir |-> <<u, v>>]

MagCell(u, v) ==
    IF u = NaN \/ v = NaN THEN NaN
    ELSE IF IsNum(u) /\ IsNum(v) THEN MagValue(u.num, v.num)
    ELSE [mag |-> <<u, v>>]

\* line 403 / 252
DirField(u, v) ==
    Arr([i \in 1..Len(u.rows) |->
           [j \in 1..Len(u.rows[i]) |-> DirCell(u.rows[i][j], v.rows[i][j])]])

\* line 404 / 253
MagField(u, v) ==
    Arr([i \in 1..Len(u.rows) |->
           [j \in 1..Len(u.rows[i]) |-> MagCell(u.rows[i][j], v.rows[i][j])]])

\* rasterio.open(path, 'w', driver, **gdal_args) followed by write(array, 1):
\* the file at `path` is replaced
RasterFile(driver, array, gdal_args) ==
    [driver |-> driver, array |-> array, args |-> gdal_args]

WriteFile(fs, path, file) ==
    [p \in DOMAIN fs \cup {path} |-> IF p = path THEN file ELSE fs[p]]

\* rasterio.open with a driver GDAL does not know raises before anything is
\* written; whether a file already at the path survives is up to the library
RemoveFile(fs, path) == [p \in DOMAIN fs \ {path} |-> fs[p]]

NoFiles == [p \in {} |-> {}]

\* a file left in the output directory by an earlier run
StaleFile == [driver |-> "GTiff", array |-> Arr(<<<<[stale |-> TRUE]>>>>), args |-> [stale |-> TRUE]]

\* the value of file_extension before its first assignment
NoExtension == "<unbound>"

NoError == "<none>"

----------------------------------------------------------------------------
(* HFR_Range: the loaded dataset                                            *)

MEASUREMENT_VARIABLES == <<"u", "v", "DOPx", "DOPy">>

\* coordinate arrays of the dataset: a grid whose x and y spacings differ
HfrLon == <<0, 3>>

HfrLat == <<0, 2, 4>>

MinutesPerHour == 60

\* line 71: the time axis of the dataset (minutes), hourly
HfrAxis == <<0, 60, 120>>

\* numpy.searchsorted(a, v): the number of elements of the ascending a below v
searchsorted(a, v) == Cardinality({i \in 1..Len(a) : a[i] < v})

\* the object before __init__
NoHfr ==
    [pc |-> "new", error |-> NoError, start_datetime |-> 0, end_datetime |-> 0,
     start_index |-> 0, end_index |-> 0]

\* lines 48-84: open the dataset, slice the time axis to [start, end); numpy.min
\* of an empty slice raises ValueError inside the print on line 78
HfrConstruct(start_datetime, end_datetime) ==
    /\ hfr.pc = "new"
    /\ \E opened \in BOOLEAN :
          LET start_index == searchsorted(HfrAxis, start_datetime)
              end_index == searchsorted(HfrAxis, end_datetime)
              object == [NoHfr EXCEPT !.start_datetime = start_datetime,
                                      !.end_datetime = end_datetime]
              sliced == [object EXCEPT !.start_index = start_index, !.end_index = end_index]
          IN  hfr' = IF ~ opened
                     THEN [object EXCEPT !.pc = "raised", !.error = "NoDataError"]
                     ELSE IF start_index >= end_index
                     THEN [sliced EXCEPT !.pc = "raised", !.error = "ValueError"]
                     ELSE [sliced EXCEPT !.pc = "constructed"]
    /\ UNCHANGED <<program, main, wr, variable_means, tasks, files, written, rtofsVars>>

\* line 76: self.datetimes, the time axis after slicing
HfrDatetimes == SubSeq(HfrAxis, hfr.start_index + 1, hfr.end_index)

\* one cell of self.netcdf_dataset[variable][t, r, c]; one cell of the dataset
\* is missing
HfrCell(variable, t, r, c) ==
    IF variable = "u" /\ t = 2 /\ r = 1 /\ c = 1 THEN NaN ELSE [src |-> <<variable, t, r, c>>]

\* self.netcdf_dataset[variable], indexed [time][row][column] over the whole
\* time axis
HfrVariable(variable) ==
    [t \in 1..Len(HfrAxis) |->
        [r \in 1..Len(HfrLat) |-> [c \in 1..Len(HfrLon) |-> HfrCell(variable, t, r, c)]]]

\* the measurements left as long as the dataset's time axis
HfrDataUncut(variable) == HfrVariable(variable)

\* line 84: self.data[variable], the slices [start_index, end_index)
HfrData(variable) == SubSeq(HfrVariable(variable), hfr.start_index + 1, hfr.end_index)

\* numpy.mean(numpy.diff(a)): the differences telescope
MeanDiff(a) == (a[Len(a)] - a[1]) \div (Len(a) - 1)

\* lines 88-95
HfrGridTransform ==
    FromOrigin(Min(SeqToSet(HfrLon)), Max(SeqToSet(HfrLat)), MeanDiff(HfrLon), MeanDiff(HfrLat))

\* lines 134-141
cell_size == <<Abs(MeanDiff(HfrLon)), Abs(MeanDiff(HfrLat))>>

\* lines 124-132: (west, north, east, south) from the dataset's attributes
bounds ==
    <<Min(SeqToSet(HfrLon)), Max(SeqToSet(HfrLat)), Max(SeqToSet(HfrLon)), Min(SeqToSet(HfrLat))>>

\* _utilities.round_to_hour: the nearest whole hour
round_to_hour(t) == ((t + (MinutesPerHour \div 2)) \div MinutesPerHour) * MinutesPerHour

\* _utilities.hour_range: the hourly timestamps from start to end
hour_range(start, end) == {h \in start..end : (h - start) % MinutesPerHour = 0}

\* ascending sequence of the elements of a set of integers
RECURSIVE Ascending(_)
Ascending(S) == IF S = {} THEN <<>> ELSE <<Min(S)>> \o Ascending(S \ {Min(S)})

\* lines 111-113: the indices of the axis timestamps that are in hourly_range
MatchingIndices(start, end) ==
    LET hourly_range == hour_range(round_to_hour(start), round_to_hour(end))
    IN  Ascending({i \in 1..Len(HfrDatetimes) : HfrDatetimes[i] \in hourly_range})

\* an empty match answered with every index of the axis
ResolveWithDefault(start, end, raises) ==
    IF raises THEN Raised("TypeError")
    ELSE IF Len(MatchingIndices(start, end)) = 0
    THEN [indices |-> [i \in 1..Len(HfrDatetimes) |-> i]]
    ELSE [indices |-> MatchingIndices(start, end)]

\* lines 97-122: None, or the matching indices; when the membership test raises,
\* the bare except sets None and len(None) on line 118 raises TypeError
get_datetime_indices(start, end, raises) ==
    LET datetime_indices == IF raises THEN None ELSE [indices |-> MatchingIndices(start, end)]
    IN  IF datetime_indices = None THEN Raised("TypeError")
        ELSE IF Len(datetime_indices.indices) = 0 THEN None
        ELSE datetime_indices

\* numpy.mean(..., axis=0) of one cell over the selected time slices
MeanCell(cells) ==
    IF \E k \in 1..Len(cells) : cells[k] = NaN THEN NaN ELSE [mean |-> cells]

\* numpy.mean(self.data[variable][datetime_indices, :, :], axis=0)
MeanOverTime(variable, datetime_indices) ==
    Arr([r \in 1..Len(HfrLat) |->
           [c \in 1..Len(HfrLon) |->
               MeanCell([k \in 1..Len(datetime_indices.indices) |->
                            HfrData(variable)[datetime_indices.indices[k]][r][c]])]])

\* numpy.arange(start, stop, step) for a positive step
RECURSIVE Arange(_, _, _)
Arange(start, stop, step) ==
    IF start >= stop THEN <<>> ELSE <<start>> \o Arange(start + step, stop, step)

\* scipy.interpolate.griddata(..., method='nearest'): the value of the input
\* point nearest to (x, y); values are the flattened array, points the
\* flattened meshgrid of the dataset's coordinates
NearestValue(values, x, y) ==
    LET ncols == Len(HfrLon)
        points == 1..(Len(HfrLat) * ncols)
        px(k) == HfrLon[((k - 1) % ncols) + 1]
        py(k) == HfrLat[((k - 1) \div ncols) + 1]
        dist(k) == (px(k) - x) * (px(k) - x) + (py(k) - y) * (py(k) - y)
        nearest == CHOOSE k \in points : \A m \in points : dist(k) <= dist(m)
    IN  values[nearest]

\* lines 419-425: the uniform output grid
OutputLon == Arange(bounds[1], bounds[3], Min({cell_size[1], cell_size[2]}))

OutputLat == Arange(bounds[4], bounds[2], Min({cell_size[1], cell_size[2]}))

\* lines 427-430; griddata raises ValueError when the number of values differs
\* from the number of points
Griddata(raster_data) ==
    IF Len(Flatten(raster_data)) # Len(HfrLat) * Len(HfrLon) THEN Raised("ValueError")
    ELSE AsFloat32(Arr([l \in 1..Len(OutputLat) |->
                          [k \in 1..Len(OutputLon) |->
                              NearestValue(Flatten(raster_data), OutputLon[k], OutputLat[l])]]))

\* lines 434-436; numpy.max of an empty difference raises ValueError
RegridTransform ==
    IF Len(OutputLon) < 2 THEN Raised("ValueError")
    ELSE LET diffs == {OutputLon[k + 1] - OutputLon[k] : k \in 1..(Len(OutputLon) - 1)}
         IN  FromOrigin(Min(SeqToSet(OutputLon)), Max(SeqToSet(OutputLat)), Max(diffs), Max(diffs))

----------------------------------------------------------------------------
(* HFR_Range.write_rasters and write_vector: concurrent averaging           *)

\* lines 371-372
HfrSuffix(filename_suffix) ==
    IF filename_suffix # None THEN Txt(<<"_">> \o filename_suffix.text) ELSE None

\* str() of a value inside an f-string
Str(x) == IF x = None THEN <<"None">> ELSE x.text

\* lines 443-444
HfrFilename(filename_prefix, variable, filename_suffix, file_extension) ==
    Str(filename_prefix) \o <<"_", variable>> \o Str(filename_suffix) \o <<".", file_extension>>

\* number of leading variables that self.data holds: the dict comprehension
\* raises KeyError at the first that it does not
RECURSIVE Submittable(_)
Submittable(variables) ==
    IF Len(variables) = 0 \/ Head(variables) \notin SeqToSet(MEASUREMENT_VARIABLES)
    THEN 0
    ELSE 1 + Submittable(Tail(variables))

NewCall(cls, method) ==
    [pc |-> "idle", cls |-> cls, method |-> method, error |-> NoError,
     variables |-> <<>>, drivers |-> <<>>, vector_components |-> FALSE,
     filename_prefix |-> Txt(<<>>), filename_suffix |-> None, crop |-> TRUE, time |-> 0, query |-> 0,
     start_datetime |-> 0, end_datetime |-> 0,
     datetime_indices |-> None, time_delta_string |-> <<>>, direction |-> "",
     data_directions |-> {},
     vi |-> 1, di |-> 1, raster_data |-> Unbound, gdal_args |-> Unbound,
     file_extension |-> NoExtension, output_filename |-> <<>>]

\* no call of write_rasters or write_vector has been made
NoExport ==
    /\ wr = NewCall("none", "none")
    /\ variable_means = <<>>
    /\ tasks = <<>>
    /\ files = NoFiles
    /\ written = <<>>
    /\ hfr = NoHfr

\* lines 365-383 (write_rasters) and 278-294 (write_vector): resolve the
\* interval and submit one numpy.mean task per variable
HfrCall(method, variables, drivers, vector_components, filename_prefix, filename_suffix, start_datetime, end_datetime) ==
    /\ hfr.pc = "constructed"
    /\ wr.pc = "idle"
    /\ \E raises \in BOOLEAN :
          LET datetime_indices == get_datetime_indices(start_datetime, end_datetime, raises)
              n == Submittable(variables)
              call == [NewCall("hfr", method) EXCEPT
                          !.variables = variables, !.drivers = drivers,
                          !.vector_components = vector_components,
                          !.filename_prefix = filename_prefix,
                          !.filename_suffix = HfrSuffix(filename_suffix),
                          !.start_datetime = start_datetime, !.end_datetime = end_datetime]
              resolved == [call EXCEPT !.datetime_indices = datetime_indices]
          IN  IF IsError(datetime_indices)
              THEN /\ wr' = [call EXCEPT !.pc = "raised", !.error = datetime_indices.error]
                   /\ tasks' = <<>>
              ELSE IF datetime_indices = None
              THEN /\ wr' = [resolved EXCEPT !.pc = "returned"]
                   /\ tasks' = <<>>
              ELSE /\ wr' = IF n = Len(variables)
                            THEN [resolved EXCEPT !.pc = "collect"]
                            ELSE [resolved EXCEPT !.pc = "abort", !.error = "KeyError"]
                   /\ tasks' = [i \in 1..n |-> [variable |-> variables[i], state |-> "pending",
                                                result |-> None, collected |-> FALSE]]
    /\ variable_means' = <<>>
    /\ written' = <<>>
    /\ UNCHANGED <<program, main, files, hfr, rtofsVars>>

\* a pool worker picks the task up
TaskStart(i) ==
    /\ i \in 1..Len(tasks)
    /\ tasks[i].state = "pending"
    /\ tasks' = [tasks EXCEPT ![i].state = "running"]
    /\ UNCHANGED <<program, main, wr, variable_means, files, written, hfr, rtofsVars>>

\* numpy.mean returns, or raises
TaskFinish(i) ==
    /\ i \in 1..Len(tasks)
    /\ tasks[i].state = "running"
    /\ \E ok \in BOOLEAN :
          tasks' = [tasks EXCEPT ![i] =
                      IF ok
                      THEN [@ EXCEPT !.state = "done",
                                     !.result = MeanOverTime(tasks[i].variable,
                                                             wr.datetime_indices)]
                      ELSE [@ EXCEPT !.state = "failed"]]
    /\ UNCHANGED <<program, main, wr, variable_means, files, written, hfr, rtofsVars>>

Completed(i) == tasks[i].state \in {"done", "failed"}

\* line 386 / 297: variable = variable_futures[completed_future]
CollectKeyByArrival(i) ==
    wr.variables[Cardinality({k \in 1..Len(tasks) : tasks[k].collected}) + 1]

CollectKey(i) == tasks[i].variable

\* lines 385-387 / 296-298: as_completed yields a finished future; result()
\* returns its mean or raises its exception
Collect(i) ==
    /\ wr.pc = "collect"
    /\ i \in 1..Len(tasks)
    /\ Completed(i)
    /\ ~ tasks[i].collected
    /\ tasks' = [tasks EXCEPT ![i].collected = TRUE]
    /\ IF tasks[i].state = "done"
       THEN /\ variable_means' = PutMean(variable_means, CollectKey(i), tasks[i].result)
            /\ UNCHANGED wr
       ELSE /\ wr' = [wr EXCEPT !.pc = "abort", !.error = "TaskError"]
            /\ UNCHANGED variable_means
    /\ UNCHANGED <<program, main, files, written, hfr, rtofsVars>>

\* the loop over as_completed ends when every future has been yielded
LoopFinishedEarly == \E i \in 1..Len(tasks) : tasks[i].collected

LoopFinished == \A i \in 1..Len(tasks) : tasks[i].collected

\* ThreadPoolExecutor.__exit__ is shutdown(wait=True)
PoolDrained == \A i \in 1..Len(tasks) : Completed(i)

\* lines 389 / 300: the `with` block is left normally
LeavePool ==
    /\ wr.pc = "collect"
    /\ LoopFinished
    /\ PoolDrained
    /\ wr' = [wr EXCEPT !.pc = IF wr.method = "write_vector" THEN "layer" ELSE "derive"]
    /\ UNCHANGED <<program, main, variable_means, tasks, files, written, hfr, rtofsVars>>

\* an exception leaves the `with` block: the pool is drained, then it propagates
AbortPool ==
    /\ wr.pc = "abort"
    /\ PoolDrained
    /\ wr' = [wr EXCEPT !.pc = "raised"]
    /\ UNCHANGED <<program, main, variable_means, tasks, files, written, hfr, rtofsVars>>

\* write_vector lines 302-316: self.data['lon'] is a numpy array, which has no
\* attribute `values`
VectorLayer ==
    /\ wr.pc = "layer"
    /\ wr' = [wr EXCEPT !.pc = "raised", !.error = "AttributeError"]
    /\ UNCHANGED <<program, main, variable_means, tasks, files, written, hfr, rtofsVars>>

\* lines 391-404
HfrDerive ==
    /\ wr.pc = "derive"
    /\ wr.cls = "hfr"
    /\ LET u_data == IF "u" \in SeqToSet(wr.variables) THEN MeanOf(variable_means, "u")
                     ELSE MeanOverTime("u", wr.datetime_indices)
           v_data == IF "v" \in SeqToSet(wr.variables) THEN MeanOf(variable_means, "v")
                     ELSE MeanOverTime("v", wr.datetime_indices)
       IN  variable_means' =
              IF wr.vector_components
              THEN PutMean(PutMean(variable_means, "dir", DirField(u_data, v_data)),
                           "mag", MagField(u_data, v_data))
              ELSE variable_means
    /\ wr' = [wr EXCEPT !.pc = IF Len(variable_means') = 0 \/ Len(wr.drivers) = 0
                               THEN "returned" ELSE "write",
                        !.vi = 1, !.di = 1]
    /\ UNCHANGED <<program, main, tasks, files, written, hfr, rtofsVars>>

\* lines 409-413
HfrGdalArgs(raster_data) ==
    [height |-> Height(raster_data), width |-> Width(raster_data), count |-> 1,
     dtype |-> "float32", crs |-> "epsg:4326", transform |-> HfrGridTransform,
     nodata |-> FillValue, FORCE_CELLSIZE |-> "<absent>"]

\* lines 416-441: the body of the driver loop up to the file name; the locals
\* it leaves behind, or the exception it raises
HfrDriver(driver, raster_data, gdal_args, file_extension) ==
    LET same == [error |-> NoError, raster_data |-> raster_data, gdal_args |-> gdal_args,
                 file_extension |-> file_extension]
    IN  CASE driver = "AAIGrid" ->
                LET regridded == Griddata(raster_data)
                IN  IF IsError(regridded)
                    THEN [same EXCEPT !.error = regridded.error, !.file_extension = "asc"]
                    ELSE IF IsError(RegridTransform)
                    THEN [same EXCEPT !.error = RegridTransform.error,
                                      !.raster_data = regridded, !.file_extension = "asc"]
                    ELSE [same EXCEPT !.raster_data = regridded,
                                      !.gdal_args = [gdal_args EXCEPT
                                                        !.height = Height(regridded),
                                                        !.width = Width(regridded),
                                                        !.FORCE_CELLSIZE = "YES",
                                                        !.transform = RegridTransform],
                                      !.file_extension = "asc"]
          [] driver = "GTiff" -> [same EXCEPT !.file_extension = "tiff"]
          [] driver = "GPKG" -> [same EXCEPT !.file_extension = "gpkg"]
          [] OTHER -> IF file_extension = NoExtension
                      THEN [same EXCEPT !.error = "UnboundLocalError"]
                      ELSE same

\* the loop position after the iteration (vi, di)
Advance(call, vm) ==
    IF call.di < Len(call.drivers) THEN [call EXCEPT !.di = @ + 1]
    ELSE IF call.vi < Len(vm) THEN [call EXCEPT !.vi = @ + 1, !.di = 1]
    ELSE [call EXCEPT !.pc = "returned"]

\* lines 406-448, one iteration of the driver loop
HfrWrite ==
    /\ wr.pc = "write"
    /\ wr.cls = "hfr"
    /\ LET variable == variable_means[wr.vi][1]
           variable_data == variable_means[wr.vi][2]
           raster_data == IF wr.di = 1 THEN AsFloat32(variable_data) ELSE wr.raster_data
           gdal_args == IF wr.di = 1 THEN HfrGdalArgs(raster_data) ELSE wr.gdal_args
           driver == wr.drivers[wr.di]
           step == HfrDriver(driver, raster_data, gdal_args, wr.file_extension)
           locals == [wr EXCEPT !.raster_data = step.raster_data,
                                !.gdal_args = step.gdal_args,
                                !.file_extension = step.file_extension]
           output_filename == HfrFilename(wr.filename_prefix, variable, wr.filename_suffix,
                                          step.file_extension)
       IN  IF step.error # NoError
           THEN /\ wr' = [locals EXCEPT !.pc = "raised", !.error = step.error]
                /\ UNCHANGED <<files, written>>
           ELSE IF driver \notin ValidDrivers
           THEN /\ wr' = [locals EXCEPT !.pc = "raised", !.error = "DriverError",
                                        !.output_filename = output_filename]
                /\ files' \in {files, RemoveFile(files, output_filename)}
                /\ UNCHANGED written
           ELSE /\ wr' = Advance([locals EXCEPT !.output_filename = output_filename],
                                 variable_means)
                /\ files' = WriteFile(files, output_filename,
                                      RasterFile(driver, Flipud(step.raster_data), step.gdal_args))
                /\ written' = Append(written, [path |-> output_filename, variable |-> variable,
                                               driver |-> driver])
    /\ UNCHANGED <<program, main, variable_means, tasks, hfr, rtofsVars>>

----------------------------------------------------------------------------
(* RTOFS_Dataset: grid, fields and write_rasters                            *)

\* sample_dataset['lon'].values, ['lat'].values and their `resolution`
RtofsRawLon == <<80, 180, 238, 242, 400>>

RtofsLat == <<10, 20, 30>>

\* lines 132-133: the resolution attributes of the longitude and latitude axes
lon_pixel_size == 4

lat_pixel_size == 5

\* line 141: bounds of the study area polygon (west, south, east, north)
StudyArea == [west |-> -125, south |-> 15, east |-> -115, north |-> 30]

\* lines 128, 135-139
global_grid_transform ==
    LET raw_min == Min(SeqToSet(RtofsRawLon))
        lon == {RtofsRawLon[j] - 180 - raw_min : j \in 1..Len(RtofsRawLon)}
    IN  FromOrigin(Min(lon), Max(SeqToSet(RtofsLat)), lon_pixel_size, lat_pixel_size)

\* lines 144-145
study_area_transform ==
    FromOrigin(StudyArea.west, StudyArea.north, lon_pixel_size, lat_pixel_size)

\* one cell of a handle's variable; one cell of the u component is missing
RtofsCell(direction, variable_name, time, i, j) ==
    IF variable_name = "u_velocity" /\ i = 2 /\ j = 3 THEN NaN
    ELSE [rsrc |-> <<direction, variable_name, time, i, j>>]

\* DataArray.sel(lon=slice(low, high)): the indices whose label lies in [low, high]
SliceIndices(coordinates, low, high) ==
    Ascending({k \in 1..Len(coordinates) : low <= coordinates[k] /\ coordinates[k] <= high})

\* the (rows, columns) selection of a variable at a time, rows in source order
Selection(direction, variable_name, time, rows, columns) ==
    [r \in 1..Len(rows) |->
        [c \in 1..Len(columns) |-> RtofsCell(direction, variable_name, time, rows[r], columns[c])]]

\* numpy.concatenate(..., axis=1)
ConcatenateColumns(a, b) == [r \in 1..Len(a) |-> a[r] \o b[r]]

\* lines 177-193: the array data() returns when the time is on the axis
DataField(direction, variable_name, time, crop) ==
    IF crop
    THEN Flipud(Arr(Selection(direction, variable_name, time,
                              SliceIndices(RtofsLat, StudyArea.south, StudyArea.north),
                              SliceIndices(RtofsRawLon, StudyArea.west + 360,
                                           StudyArea.east + 360))))
    ELSE LET rows == SliceIndices(RtofsLat, Min(SeqToSet(RtofsLat)), Max(SeqToSet(RtofsLat)))
             western_selection ==
                 Selection(direction, variable_name, time, rows,
                           SliceIndices(RtofsRawLon, 180, Max(SeqToSet(RtofsRawLon))))
             eastern_selection ==
                 Selection(direction, variable_name, time, rows,
                           SliceIndices(RtofsRawLon, Min(SeqToSet(RtofsRawLon)), 180))
         IN  Flipud(Arr(ConcatenateColumns(western_selection, eastern_selection)))

\* data() called from the thread that runs write_rasters, start to end:
\* [outcome, direction, value]; `found` says whether the time is on the axis
Data(variable, time, crop, found) ==
    LET direction == DataDirection(time, model_datetime)
        entry == DataEntry(variable, direction)
    IN  IF entry = "None"
        THEN [outcome |-> "None", direction |-> direction, value |-> None]
        ELSE IF entry # "lock"
        THEN [outcome |-> entry, direction |-> direction, value |-> None]
        ELSE IF ~ found
        THEN [outcome |-> "KeyError", direction |-> direction, value |-> None]
        ELSE [outcome |-> "field", direction |-> direction,
              value |-> DataField(direction, DATA_VARIABLES[variable][source][2],
                                  DataTime(time), crop)]

\* int(x / y) for integers: the quotient truncated towards zero
TruncDiv(x, y) == IF x >= 0 THEN x \div y ELSE -((-x) \div y)

Digit(d) == <<"0", "1", "2", "3", "4", "5", "6", "7", "8", "9">>[d + 1]

\* str(n) for n >= 0
RECURSIVE Digits(_)
Digits(n) == IF n < 10 THEN <<Digit(n)>> ELSE Digits(n \div 10) \o <<Digit(n % 10)>>

\* f'{n:03}' for n >= 0
Pad3(n) ==
    LET d == Digits(n)
    IN  IF Len(d) >= 3 THEN d ELSE [k \in 1..(3 - Len(d)) |-> "0"] \o d

\* line 228
TimeDelta(time, run) == TruncDiv(time - run, HoursPerDay)

\* line 229
LabelDirection(time_delta) == IF time_delta >= 0 THEN "forecast" ELSE "nowcast"

\* line 230: direction[0]
Initial(direction) == IF direction = "forecast" THEN "f" ELSE "n"

\* line 230
TimeDeltaString(time_delta) ==
    LET direction == LabelDirection(time_delta)
    IN  <<Initial(direction)>>
        \o Pad3(IF direction = "forecast" THEN Abs(time_delta) + 1 ELSE Abs(time_delta))

\* self.model_datetime.strftime("%Y%m%d"): one token per day
DateString(run) ==
    <<IF run >= 0 THEN "day+" ELSE "day-">> \o Digits(Abs(run \div HoursPerDay))

\* lines 221-223
RtofsPrefix(filename_prefix) == IF filename_prefix = None THEN Txt(<<"rtofs">>) ELSE filename_prefix

RtofsSuffix(filename_suffix) ==
    IF filename_suffix # None THEN Txt(<<"_">> \o filename_suffix.text) ELSE Txt(<<>>)

\* lines 269-270
RtofsFilename(filename_prefix, variable, run, time_delta_string, filename_suffix) ==
    filename_prefix.text \o <<"_", variable, "_">> \o DateString(run) \o <<"_">>
        \o time_delta_string \o filename_suffix.text

\* os.path.splitext(name)[0]: the name up to its last dot, leading dots aside
SplitextRoot(name) ==
    LET dots == {k \in 1..Len(name) : name[k] = "." /\ \E m \in 1..(k - 1) : name[m] # "."}
    IN  IF dots = {} THEN name ELSE SubSeq(name, 1, Max(dots) - 1)

\* line 282
ReplaceExtension(name, file_extension) ==
    SplitextRoot(name) \o <<".", file_extension>>

\* lines 218-230: arguments are normalised, the label of the file names is computed
RtofsCall(variables, time, filename_prefix, filename_suffix, vector_components, drivers, crop) ==
    /\ ctor.pc = "constructed"
    /\ wr.pc = "idle"
    /\ LET t == DataTime(time)
           time_delta == TimeDelta(t, model_datetime)
       IN  wr' = [NewCall("rtofs", "write_rasters") EXCEPT
                     !.pc = IF Len(variables) = 0 THEN "derive" ELSE "data",
                     !.variables = variables, !.drivers = drivers,
                     !.vector_components = vector_components,
                     !.filename_prefix = RtofsPrefix(filename_prefix),
                     !.filename_suffix = RtofsSuffix(filename_suffix),
                     !.crop = crop, !.time = t, !.query = time,
                     !.direction = LabelDirection(time_delta),
                     !.time_delta_string = TimeDeltaString(time_delta)]
    /\ variable_means' = <<>>
    /\ tasks' = <<>>
    /\ written' = <<>>
    /\ UNCHANGED <<program, main, files, hfr, rtofsVars>>

\* write_raster line 301 on entry: one variable, the path given by the caller;
\* the loop locals are those of write_rasters
RtofsRasterCall(output_filename, variable, time, drivers, crop) ==
    /\ ctor.pc = "constructed"
    /\ wr.pc = "idle"
    /\ wr' = [NewCall("rtofs", "write_raster") EXCEPT
                 !.pc = "data", !.variables = <<variable>>, !.drivers = drivers,
                 !.crop = crop, !.time = time, !.query = time,
                 !.output_filename = output_filename]
    /\ variable_means' = <<>>
    /\ tasks' = <<>>
    /\ written' = <<>>
    /\ UNCHANGED <<program, main, files, hfr, rtofsVars>>

\* lines 234-235, one iteration: variable_means[variable] = self.data(...)
RtofsData ==
    /\ wr.pc = "data"
    /\ \E found \in BOOLEAN :
          LET variable == wr.variables[wr.vi]
              d == Data(variable, wr.time, wr.crop, found)
          IN  IF d.outcome \in {"field", "None"}
              THEN /\ variable_means' = PutMean(variable_means, variable, d.value)
                   /\ wr' = [wr EXCEPT !.data_directions = @ \cup {d.direction},
                                       !.vi = @ + 1,
                                       !.pc = IF wr.vi = Len(wr.variables)
                                              THEN "derive" ELSE "data"]
              ELSE /\ wr' = [wr EXCEPT !.data_directions = @ \cup {d.direction},
                                       !.pc = "raised", !.error = d.outcome]
                   /\ UNCHANGED variable_means
    /\ UNCHANGED <<program, main, tasks, files, written, hfr, rtofsVars>>

\* lines 237-253
RtofsDerive ==
    /\ wr.pc = "derive"
    /\ wr.cls = "rtofs"
    /\ \E found_u, found_v \in BOOLEAN :
          LET fetched(name, found) ==
                  IF name \in MeanKeys(variable_means)
                  THEN [outcome |-> "field", value |-> MeanOf(variable_means, name)]
                  ELSE Data(name, wr.time, wr.crop, found)
              u == fetched("u", found_u)
              v == fetched("v", found_v)
              failed(d) == d.outcome \notin {"field", "None"}
              write == [wr EXCEPT !.pc = "write", !.vi = 1, !.di = 1]
          IN  IF ~ wr.vector_components
              THEN /\ wr' = write
                   /\ UNCHANGED variable_means
              ELSE IF failed(u) \/ failed(v)
              THEN /\ wr' = [wr EXCEPT !.pc = "raised",
                                       !.error = IF failed(u) THEN u.outcome ELSE v.outcome]
                   /\ UNCHANGED variable_means
              ELSE /\ wr' = write
                   /\ variable_means' =
                         IF u.value # None /\ v.value # None
                         THEN PutMean(PutMean(variable_means, "dir", DirField(u.value, v.value)),
                                      "mag", MagField(u.value, v.value))
                         ELSE variable_means
    /\ UNCHANGED <<program, main, tasks, files, written, hfr, rtofsVars>>

\* lines 258-267 and 304-313
RtofsGdalArgsUncropped(variable_mean, crop) ==
    [transform |-> global_grid_transform,
     height |-> Height(variable_mean), width |-> Width(variable_mean), count |-> 1,
     dtype |-> "float32", crs |-> "epsg:4326", nodata |-> FillValue,
     FORCE_CELLSIZE |-> "<absent>"]

RtofsGdalArgs(variable_mean, crop) ==
    [transform |-> IF crop THEN study_area_transform ELSE global_grid_transform,
     height |-> Height(variable_mean), width |-> Width(variable_mean), count |-> 1,
     dtype |-> "float32", crs |-> "epsg:4326", nodata |-> FillValue,
     FORCE_CELLSIZE |-> "<absent>"]

\* lines 274-280: the locals the driver branch leaves behind
RtofsDriver(driver, gdal_args, file_extension) ==
    LET same == [error |-> NoError, gdal_args |-> gdal_args, file_extension |-> file_extension]
    IN  CASE driver = "AAIGrid" -> [same EXCEPT !.file_extension = "asc",
                                                !.gdal_args.FORCE_CELLSIZE = "YES"]
          [] driver = "GTiff" -> [same EXCEPT !.file_extension = "tiff"]
          [] driver = "GPKG" -> [same EXCEPT !.file_extension = "gpkg"]
          [] OTHER -> IF file_extension = NoExtension
                      THEN [same EXCEPT !.error = "UnboundLocalError"]
                      ELSE same

\* lines 256-286 (write_rasters) and 303-328 (write_raster): one iteration of
\* the driver loop, or the skip of a variable whose field is None, or the end of
\* the loop
RtofsWrite ==
    /\ wr.pc = "write"
    /\ wr.cls = "rtofs"
    /\ IF wr.vi > Len(variable_means) \/ Len(wr.drivers) = 0
       THEN /\ wr' = [wr EXCEPT !.pc = "returned"]
            /\ UNCHANGED <<files, written>>
       ELSE LET variable == variable_means[wr.vi][1]
                variable_mean == variable_means[wr.vi][2]
                first == wr.di = 1
                gdal_args == IF first THEN RtofsGdalArgs(variable_mean, wr.crop)
                             ELSE wr.gdal_args
                name == IF first /\ wr.method = "write_rasters"
                        THEN RtofsFilename(wr.filename_prefix, variable, model_datetime,
                                           wr.time_delta_string, wr.filename_suffix)
                        ELSE wr.output_filename
                driver == wr.drivers[wr.di]
                step == RtofsDriver(driver, gdal_args, wr.file_extension)
                output_filename == ReplaceExtension(name, step.file_extension)
                locals == [wr EXCEPT !.gdal_args = step.gdal_args,
                                     !.file_extension = step.file_extension]
                next(call) == IF call.di < Len(call.drivers) THEN [call EXCEPT !.di = @ + 1]
                              ELSE [call EXCEPT !.vi = @ + 1, !.di = 1]
            IN  IF variable_mean = None
                THEN /\ wr' = [wr EXCEPT !.vi = @ + 1, !.di = 1]
                     /\ UNCHANGED <<files, written>>
                ELSE IF step.error # NoError
                THEN /\ wr' = [locals EXCEPT !.pc = "raised", !.error = step.error,
                                             !.output_filename = name]
                     /\ UNCHANGED <<files, written>>
                ELSE IF driver \notin ValidDrivers
                THEN /\ wr' = [locals EXCEPT !.pc = "raised", !.error = "DriverError",
                                             !.output_filename = output_filename]
                     /\ files' \in {files, RemoveFile(files, output_filename)}
                     /\ UNCHANGED written
                ELSE /\ wr' = next([locals EXCEPT !.output_filename = output_filename])
                     /\ files' = WriteFile(files, output_filename,
                                           RasterFile(driver, variable_mean, step.gdal_args))
                     /\ written' = Append(written, [path |-> output_filename,
                                                    variable |-> variable, driver |-> driver])
    /\ UNCHANGED <<program, main, variable_means, tasks, hfr, rtofsVars>>

----------------------------------------------------------------------------
(* Inputs                                                                   *)

\* variable names passed to data(): one of the 'prog' group, one of the 'diag'
\* group (absent from '3dz'), and a name that is not a variable
ThreadVariables == {"salt", "ssh", "bogus"}

\* query times: the hour before the run's midnight, the run time, a day later
ThreadTimes == {model_datetime - 1, model_date, model_datetime + HoursPerDay}

\* every hour within MaxHour of the epoch
QueryTimes == (-MaxHour)..MaxHour

\* model run times: before the epoch, at midnight, during a day
RunDates == {-1, 0, 13, 24}

\* driver lists: each driver alone, both orders of two, an unknown driver first,
\* in the middle and last, and a repeated driver
DriverLists ==
    {<<"GTiff">>, <<"AAIGrid">>, <<"GPKG">>,
     <<"AAIGrid", "GTiff">>, <<"GTiff", "AAIGrid">>, <<"GPKG", "AAIGrid", "GTiff">>,
     <<"NoSuchDriver", "GTiff">>, <<"GTiff", "NoSuchDriver">>,
     <<"GTiff", "NoSuchDriver", "GPKG">>, <<"AAIGrid", "AAIGrid">>}

HfrVariableLists == {<<"u">>, <<"v", "u">>, <<"DOPx", "u", "v">>, <<"ssu", "ssv">>, <<"u", "ssv">>}

\* intervals (minutes): two hours of the axis, its last hour alone, between two
\* hours of the axis, beyond it
HfrIntervals == {<<0, 60>>, <<120, 120>>, <<100, 110>>, <<300, 360>>}

\* constructor intervals: from the second timestamp of the axis on, after the
\* axis, before it
HfrRanges == {<<60, 180>>, <<600, 720>>, <<-300, -240>>}

RtofsVariableLists == {<<"salt">>, <<"u", "v">>, <<"ssh", "u">>, <<"salt", "bogus">>}

Suffixes == {None, Txt(<<"x">>)}

\* filename_prefix and filename_suffix of an RTOFS export: the defaults, plain
\* text, a prefix with a dot in it
RtofsNamings == {<<None, None>>, <<Txt(<<"out">>), Txt(<<"x">>)>>,
                 <<Txt(<<"a", ".", "b">>), None>>}

\* export times: the hour before the run's midnight, the run time
ExportTimes == {model_datetime - 1, model_date}

RtofsDriverLists ==
    {<<"GTiff">>, <<"AAIGrid">>, <<"AAIGrid", "GTiff">>, <<"GTiff", "AAIGrid">>,
     <<"NoSuchDriver", "GTiff">>, <<"GTiff", "NoSuchDriver", "GPKG">>}

IdleThreads == [t \in Threads |-> Idle("none")]

\* write_daily_average has not been called
NoMain == [pc |-> "none"]

\* the programs: which object is built and which of its methods are called
Running(p) == program = p

vars == <<program, main, rtofsVars, exportVars>>

----------------------------------------------------------------------------
(* Concurrent callers of data() on one RTOFS_Dataset                        *)

InitData ==
    /\ program = "data"
    /\ main = NoMain
    /\ \E ti \in {"daily", "hourly"} : InitObject(13, "2ds", ti)
    /\ th = IdleThreads
    /\ NoExport

NextData ==
    \/ Running("data") /\ OpenDataset /\ UNCHANGED <<program, main, exportVars>>
    \/ Running("data") /\ FinishConstruction /\ UNCHANGED <<program, main, exportVars>>
    \/ \E t \in Threads, variable \in ThreadVariables, time \in ThreadTimes, crop \in BOOLEAN :
          Running("data") /\ DataCall(t, variable, time, crop) /\ UNCHANGED <<program, main, exportVars>>
    \/ \E t \in Threads : Running("data") /\ DataAcquire(t) /\ UNCHANGED <<program, main, exportVars>>
    \/ \E t \in Threads : Running("data") /\ DataRead(t) /\ UNCHANGED <<program, main, exportVars>>
    \/ \E t \in Threads : Running("data") /\ DataReturn(t) /\ UNCHANGED <<program, main, exportVars>>

SpecData == InitData /\ [][NextData]_vars

\* a caller that is inside the `with` block runs on: the slice read ends, by a
\* return or by an exception, and the block is left
FairData ==
    \A t \in Threads :
        /\ WF_vars(Running("data") /\ DataRead(t) /\ UNCHANGED <<program, main, exportVars>>)
        /\ WF_vars(Running("data") /\ DataReturn(t) /\ UNCHANGED <<program, main, exportVars>>)

SpecDataFair == SpecData /\ FairData

----------------------------------------------------------------------------
(* One caller of HFR_Range.write_rasters or write_vector                    *)

\* the HFR code does not touch an RTOFS_Dataset
NoRtofs ==
    /\ InitObject(0, "2ds", "daily")
    /\ th = IdleThreads

InitHfr ==
    /\ program = "hfr"
    /\ main = NoMain
    /\ NoRtofs
    /\ wr = NewCall("none", "none")
    /\ variable_means = <<>>
    /\ tasks = <<>>
    /\ written = <<>>
    /\ hfr = NoHfr
    /\ files = [p \in {HfrFilename(Txt(<<"hfr">>), "u", None, "tiff"),
                       HfrFilename(Txt(<<"hfr">>), "u", HfrSuffix(Txt(<<"x">>)), "asc")}
                  |-> StaleFile]

NextHfr ==
    \/ \E range \in HfrRanges : Running("hfr") /\ HfrConstruct(range[1], range[2])
    \/ \E variables \in HfrVariableLists, drivers \in DriverLists,
          vector_components \in BOOLEAN, filename_suffix \in Suffixes,
          interval \in HfrIntervals :
          /\ Running("hfr")
          /\ HfrCall("write_rasters", variables, drivers, vector_components, Txt(<<"hfr">>),
                     filename_suffix, interval[1], interval[2])
    \/ \E interval \in HfrIntervals :
          /\ Running("hfr")
          /\ HfrCall("write_vector", MEASUREMENT_VARIABLES, <<>>, FALSE, Txt(<<>>), None,
                     interval[1], interval[2])
    \/ \E i \in 1..Len(tasks) : TaskStart(i)
    \/ \E i \in 1..Len(tasks) : TaskFinish(i)
    \/ \E i \in 1..Len(tasks) : Collect(i)
    \/ LeavePool
    \/ AbortPool
    \/ VectorLayer
    \/ HfrDerive
    \/ HfrWrite

SpecHfr == InitHfr /\ [][NextHfr]_vars

----------------------------------------------------------------------------
(* One caller of RTOFS_Dataset.write_rasters                                *)

InitRtofs ==
    /\ program = "rtofs"
    /\ main = NoMain
    /\ InitObject(13, "2ds", "daily")
    /\ th = IdleThreads
    /\ wr = NewCall("none", "none")
    /\ variable_means = <<>>
    /\ tasks = <<>>
    /\ written = <<>>
    /\ hfr = NoHfr
    /\ files = [p \in {ReplaceExtension(
                          RtofsFilename(Txt(<<"out">>), "salt", 0, TimeDeltaString(0),
                                        RtofsSuffix(Txt(<<"x">>))), "tiff")}
                  |-> StaleFile]

NextRtofs ==
    \/ Running("rtofs") /\ OpenDataset /\ UNCHANGED <<program, main, exportVars>>
    \/ Running("rtofs") /\ FinishConstruction /\ UNCHANGED <<program, main, exportVars>>
    \/ \E variables \in RtofsVariableLists, time \in ExportTimes, naming \in RtofsNamings,
          vector_components \in BOOLEAN, drivers \in RtofsDriverLists, crop \in BOOLEAN :
          Running("rtofs") /\ RtofsCall(variables, time, naming[1], naming[2],
                                        vector_components, drivers, crop)
    \/ \E variable \in {"salt", "u", "bogus"}, time \in ExportTimes,
          drivers \in RtofsDriverLists, crop \in BOOLEAN :
          Running("rtofs") /\ RtofsRasterCall(<<"raster", ".", "tif">>, variable, time,
                                              drivers, crop)
    \/ Running("rtofs") /\ RtofsData
    \/ Running("rtofs") /\ RtofsDerive
    \/ Running("rtofs") /\ RtofsWrite

SpecRtofs == InitRtofs /\ [][NextRtofs]_vars

----------------------------------------------------------------------------
(* Direction selection: data() and the file name label of write_rasters     *)

InitDirection ==
    /\ program = "direction"
    /\ main = NoMain
    /\ \E md \in RunDates : InitObject(md, "2ds", "daily")
    /\ th = IdleThreads
    /\ NoExport

NextDirection ==
    \/ Running("direction") /\ OpenDataset /\ UNCHANGED <<program, main, exportVars>>
    \/ Running("direction") /\ FinishConstruction /\ UNCHANGED <<program, main, exportVars>>
    \/ \E time \in QueryTimes :
          /\ Running("direction")
          /\ wr.pc = "idle"
          /\ DataCall(1, "salt", time, TRUE)
          /\ UNCHANGED <<program, main, exportVars>>
    \/ Running("direction") /\ DataAcquire(1) /\ UNCHANGED <<program, main, exportVars>>
    \/ Running("direction") /\ DataRead(1) /\ UNCHANGED <<program, main, exportVars>>
    \/ Running("direction") /\ DataReturn(1) /\ UNCHANGED <<program, main, exportVars>>
    \/ \E time \in QueryTimes :
          /\ Running("direction")
          /\ th[1].pc = "idle"
          /\ RtofsCall(<<"salt">>, time, None, None, FALSE, <<"GTiff">>, TRUE)
    \/ Running("direction") /\ RtofsData
    \/ Running("direction") /\ RtofsDerive
    \/ Running("direction") /\ RtofsWrite

SpecDirection == InitDirection /\ [][NextDirection]_vars

----------------------------------------------------------------------------
(* The vector field derivation of both write_rasters, applied to fields of  *)
(* one cell holding whole numbers or NaN                                    *)

Components == {Num(k) : k \in -MaxSpeed..MaxSpeed} \cup {NaN}

OneCell(cell) == Arr(<<<<cell>>>>)

\* what variable_means holds for a component: RTOFS_Dataset.data() returns
\* None for a direction without handles, HFR_Range always has a mean
ComponentFields(cls) ==
    {OneCell(cell) : cell \in Components} \cup (IF cls = "rtofs" THEN {None} ELSE {})

\* both components have been averaged and the derivation is about to run
InitVector ==
    /\ program = "vector"
    /\ main = NoMain
    /\ NoRtofs
    /\ th = IdleThreads
    /\ tasks = <<>>
    /\ files = NoFiles
    /\ written = <<>>
    /\ hfr = NoHfr
    /\ \E cls \in {"hfr", "rtofs"} :
          \E u \in ComponentFields(cls), v \in ComponentFields(cls) :
             /\ wr = [NewCall(cls, "write_rasters") EXCEPT
                         !.pc = "derive", !.variables = <<"u", "v">>,
                         !.vector_components = TRUE]
             /\ variable_means = <<<<"u", u>>, <<"v", v>>>>

NextVector ==
    \/ Running("vector") /\ HfrDerive
    \/ Running("vector") /\ RtofsDerive

SpecVector == InitVector /\ [][NextVector]_vars

----------------------------------------------------------------------------
(* write_daily_average.py: one run of write_daily_average.  The calls into  *)
(* HFR_Range and RTOFS_Dataset run the actions above; VIIRS_Range,          *)
(* WCOFS_Dataset and populate_json are steps that return or, for the two    *)
(* datasets, raise NoDataError.  Dates are whole days.                      *)

\* line 37
MODEL_DAY_DELTAS == [WCOFS |-> (-1)..2, RTOFS |-> (-3)..8]

MinutesPerDay == HoursPerDay * MinutesPerHour

\* a label that numbers the forecast days from zero
MainLabelFromZero(day_delta) ==
    <<IF day_delta >= 0 THEN "f" ELSE "n">> \o Pad3(Abs(day_delta))

\* lines 128-129: the label looked for in the names of existing files
MainLabel(day_delta) ==
    <<IF day_delta >= 0 THEN "f" ELSE "n">>
        \o Pad3(IF day_delta >= 0 THEN Abs(day_delta) + 1 ELSE Abs(day_delta))

\* `part in name` for strings
Contains(name, part) ==
    \E k \in 0..(Len(name) - Len(part)) : SubSeq(name, k + 1, k + Len(part)) = part

\* lines 136-152: the write_rasters calls of one day, in order
MainUnits ==
    <<[variables |-> <<"sst">>, vector_components |-> FALSE, drivers |-> <<"GTiff">>],
      [variables |-> <<"sss">>, vector_components |-> FALSE, drivers |-> <<"GTiff">>],
      [variables |-> <<"ssh">>, vector_components |-> FALSE, drivers |-> <<"GTiff">>],
      [variables |-> <<"ssu", "ssv">>, vector_components |-> TRUE, drivers |-> <<"AAIGrid">>]>>

\* lines 132-134
ExistingFiles(listing, day_delta) ==
    {filename \in listing :
        Contains(filename, <<"rtofs">>) /\ Contains(filename, MainLabel(day_delta))}

\* lines 137 and 146-147: no existing file names a variable of the unit
UnitNeeded(unit, existing_files) ==
    \E variable \in SeqToSet(unit.variables) :
        ~ \E filename \in existing_files : Contains(filename, <<variable>>)

\* the names RTOFS_Dataset.write_rasters gives the files of a day
RtofsFilesOf(variables, run, time_delta, file_extension) ==
    {ReplaceExtension(RtofsFilename(Txt(<<"rtofs">>), variable, run,
                                    TimeDeltaString(time_delta), Txt(<<>>)), file_extension) :
        variable \in variables}

\* what a daily directory holds when the run starts
Listing(content, run, day_delta) ==
    CASE content = "empty" -> {}
      [] content = "scalars" -> RtofsFilesOf({"sst", "sss", "ssh"}, run, day_delta, "tiff")
      [] content = "complete" ->
            RtofsFilesOf({"sst", "sss", "ssh"}, run, day_delta, "tiff")
                \cup RtofsFilesOf({"ssu", "ssv", "dir", "mag"}, run, day_delta, "asc")
      [] OTHER -> RtofsFilesOf({"sst", "sss", "ssh"}, run - HoursPerDay, day_delta + 1, "tiff")

Contents == {"empty", "scalars", "complete", "earlier run"}

MainDates == {0, 1}

\* the list of the entry point (line 363), one day, a day no model reaches
\* followed by a day only RTOFS reaches
MainDayDeltas == {<<-1, 0, 1, 2>>, <<0>>, <<9, 3>>}

NewMain(output_date, day_deltas, content) ==
    [pc |-> "start", output_date |-> output_date, day_deltas |-> day_deltas,
     content |-> content, trace |-> <<>>, error |-> NoError,
     di |-> 1, ui |-> 1, step |-> "unit", rtofs_dataset |-> None,
     time_delta_string |-> <<>>, day_of_forecast |-> 0]

IdleCall == NewCall("none", "none")

\* lines 317-326 and 48-63
MainStart ==
    /\ main.pc = "start"
    /\ main' = [main EXCEPT !.pc = "hfr", !.trace = Append(@, "hfr")]
    /\ UNCHANGED <<program, exportVars, rtofsVars>>

\* line 65
MainHfrConstruct ==
    /\ main.pc = "hfr"
    /\ LET start_of_day == main.output_date * MinutesPerDay
       IN  HfrConstruct(start_of_day + 2 * MinutesPerHour,
                        start_of_day + MinutesPerDay + 2 * MinutesPerHour)

\* lines 66-68
MainHfrWrite ==
    /\ main.pc = "hfr"
    /\ HfrCall("write_rasters", <<"ssu", "ssv">>, <<"AAIGrid">>, TRUE, Txt(<<"hfr">>),
               Txt(DateString(main.output_date * HoursPerDay)),
               hfr.start_datetime, hfr.end_datetime)

\* lines 70-73: NoDataError is logged, any other exception leaves the function
MainHfrDone ==
    /\ main.pc = "hfr"
    /\ hfr.pc = "raised" \/ wr.pc \in {"returned", "raised"}
    /\ LET error == IF hfr.pc = "raised" THEN hfr.error
                    ELSE IF wr.pc = "raised" THEN wr.error ELSE NoError
       IN  main' = IF error = NoError
                   THEN [main EXCEPT !.pc = "viirs", !.trace = Append(@, "viirs")]
                   ELSE IF error = "NoDataError"
                   THEN [main EXCEPT !.pc = "viirs", !.trace = @ \o <<"hfr_warn", "viirs">>]
                   ELSE [main EXCEPT !.pc = "raised", !.error = error]
    /\ wr' = IdleCall
    /\ UNCHANGED <<program, variable_means, tasks, files, written, hfr, rtofsVars>>

\* what a call into viirs.py or wcofs.py does: it returns or raises NoDataError
DatasetOutcomes == {"returned", "NoDataError"}

\* lines 164-165 and 206-207: a WCOFS block calls into wcofs.py only for a day
\* of MODEL_DAY_DELTAS['WCOFS']
WcofsOutcomes(day_deltas) ==
    IF \E day_delta \in SeqToSet(day_deltas) : day_delta \in MODEL_DAY_DELTAS.WCOFS
    THEN DatasetOutcomes ELSE {"returned"}

\* lines 74-91
MainViirs ==
    /\ main.pc = "viirs"
    /\ \E outcome \in DatasetOutcomes :
          main' = [main EXCEPT !.pc = "observational",
                               !.trace = IF outcome = "returned" THEN @
                                         ELSE Append(@, "viirs_warn")]
    /\ UNCHANGED <<program, exportVars, rtofsVars>>

\* lines 329-333 and 339-342, then lines 336 and 103-124
MainPublish ==
    /\ main.pc \in {"observational", "model"}
    /\ main' = IF main.pc = "observational"
               THEN [main EXCEPT !.pc = "rtofs", !.step = "unit", !.di = 1, !.ui = 1,
                                 !.trace = @ \o <<"populate_json", "notice", "rtofs">>]
               ELSE [main EXCEPT !.pc = "done", !.trace = @ \o <<"populate_json", "notice">>]
    /\ UNCHANGED <<program, exportVars, rtofsVars>>

\* lines 155-160: leave the RTOFS block
LeaveRtofs(call, warned) ==
    [call EXCEPT !.pc = "wcofs",
                 !.trace = IF warned THEN @ \o <<"rtofs_warn", "wcofs">> ELSE Append(@, "wcofs")]

NextUnit(call) ==
    IF call.ui < Len(MainUnits) THEN [call EXCEPT !.ui = @ + 1, !.step = "unit"]
    ELSE [call EXCEPT !.di = @ + 1, !.ui = 1, !.step = "unit"]

\* lines 126-154: the head of one iteration and the test of one unit
MainRtofsUnit ==
    /\ main.pc = "rtofs"
    /\ main.step = "unit"
    /\ main' =
          IF main.di > Len(main.day_deltas) THEN LeaveRtofs(main, FALSE)
          ELSE LET day_delta == main.day_deltas[main.di]
                   run == main.output_date * HoursPerDay
                   existing_files ==
                       ExistingFiles(Listing(main.content, run, day_delta), day_delta)
                   labelled == [main EXCEPT !.time_delta_string = MainLabel(day_delta),
                                            !.day_of_forecast = run + day_delta * HoursPerDay]
               IN  IF day_delta \notin MODEL_DAY_DELTAS.RTOFS
                   THEN [main EXCEPT !.di = @ + 1, !.ui = 1]
                   ELSE IF UnitNeeded(MainUnits[main.ui], existing_files)
                   THEN [labelled EXCEPT !.step = IF main.rtofs_dataset = None
                                                  THEN "create" ELSE "write"]
                   ELSE NextUnit(labelled)
    /\ UNCHANGED <<program, exportVars, rtofsVars>>

\* lines 121-122 and 139: the constructor has ended
MainRtofsCreated ==
    /\ main.pc = "rtofs"
    /\ main.step = "create"
    /\ ctor.pc # "open"
    /\ main' = IF ctor.pc = "constructed"
               THEN [main EXCEPT !.step = "write", !.rtofs_dataset = [object |-> "RTOFS_Dataset"]]
               ELSE IF ctor.pc = "NoDataError" THEN LeaveRtofs(main, TRUE)
               ELSE [main EXCEPT !.pc = "raised", !.error = ctor.pc]
    /\ UNCHANGED <<program, exportVars, rtofsVars>>

\* lines 141-142 and 151-152
MainRtofsWrite ==
    /\ main.pc = "rtofs"
    /\ main.step = "write"
    /\ LET unit == MainUnits[main.ui]
       IN  RtofsCall(unit.variables, main.day_of_forecast, None, None,
                     unit.vector_components, unit.drivers, TRUE)

\* write_rasters has returned or raised
MainRtofsWritten ==
    /\ main.pc = "rtofs"
    /\ main.step = "write"
    /\ wr.pc \in {"returned", "raised"}
    /\ main' = IF wr.pc = "returned" THEN NextUnit(main)
               ELSE IF wr.error = "NoDataError" THEN LeaveRtofs(main, TRUE)
               ELSE [main EXCEPT !.pc = "raised", !.error = wr.error]
    /\ wr' = IdleCall
    /\ UNCHANGED <<program, variable_means, tasks, files, written, hfr, rtofsVars>>

\* lines 161-201
MainWcofs ==
    /\ main.pc = "wcofs"
    /\ \E outcome \in WcofsOutcomes(main.day_deltas) :
          main' = [main EXCEPT !.pc = "wcofs_noda",
                               !.trace = IF outcome = "returned" THEN Append(@, "wcofs_noda")
                                         ELSE @ \o <<"wcofs_warn", "wcofs_noda">>]
    /\ UNCHANGED <<program, exportVars, rtofsVars>>

\* lines 203-251: when the loop ends line 247 deletes wcofs_noda and the
\* `finally` clause on line 251 deletes it again
MainWcofsNoDa ==
    /\ main.pc = "wcofs_noda"
    /\ \E outcome \in WcofsOutcomes(main.day_deltas) :
          main' = IF outcome = "returned"
                  THEN [main EXCEPT !.pc = "raised", !.error = "UnboundLocalError"]
                  ELSE [main EXCEPT !.pc = "model", !.trace = Append(@, "wcofs_noda_warn")]
    /\ UNCHANGED <<program, exportVars, rtofsVars>>

InitMain ==
    /\ program = "main"
    /\ \E output_date \in MainDates, day_deltas \in MainDayDeltas, content \in Contents :
          /\ main = NewMain(output_date, day_deltas, content)
          /\ InitObject(output_date * HoursPerDay, "2ds", "daily")
    /\ th = IdleThreads
    /\ NoExport

NextMain ==
    \/ Running("main") /\ MainStart
    \/ Running("main") /\ MainHfrConstruct
    \/ Running("main") /\ MainHfrWrite
    \/ Running("main") /\ AbortPool
    \/ Running("main") /\ MainHfrDone
    \/ Running("main") /\ MainViirs
    \/ Running("main") /\ MainPublish
    \/ Running("main") /\ MainRtofsUnit
    \/ Running("main") /\ main.step = "create" /\ OpenDataset /\ UNCHANGED <<program, main, exportVars>>
    \/ Running("main") /\ main.step = "create" /\ FinishConstruction /\ UNCHANGED <<program, main, exportVars>>
    \/ Running("main") /\ MainRtofsCreated
    \/ Running("main") /\ MainRtofsWrite
    \/ Running("main") /\ RtofsData
    \/ Running("main") /\ RtofsDerive
    \/ Running("main") /\ RtofsWrite
    \/ Running("main") /\ MainRtofsWritten
    \/ Running("main") /\ MainWcofs
    \/ Running("main") /\ MainWcofsNoDa

SpecMain == InitMain /\ [][NextMain]_vars

----------------------------------------------------------------------------
(* Every entry point                                                        *)

Init == InitData \/ InitHfr \/ InitRtofs \/ InitDirection \/ InitVector \/ InitMain

Next == NextData \/ NextHfr \/ NextRtofs \/ NextDirection \/ NextVector \/ NextMain

Spec == Init /\ [][Next]_vars

----------------------------------------------------------------------------
(* Properties of the guarded read                                           *)

InGuardedRead(t) == th[t].pc \in {"read", "exit"}

HandleOf(t) == <<th[t].direction, th[t].dataset_name>>

HoldersOf(h) == {t \in Threads : InGuardedRead(t) /\ HandleOf(t) = h}

ActiveHandles == {HandleOf(t) : t \in {u \in Threads : th[u].pc \in {"acquire", "read", "exit"}}}

\* C1: at most one caller at a time is inside the guarded read of a handle
\* (two data() calls on the same direction and sub-dataset never overlap).
C1_ExclusiveRead == \A h \in ActiveHandles : Cardinality(HoldersOf(h)) <= 1

\* a caller is inside the read of a handle while another waits for that handle
C1_Witness ==
    \E t, u \in Threads :
        /\ InGuardedRead(t)
        /\ th[u].pc = "acquire"
        /\ HandleOf(u) = HandleOf(t)

\* C2: a call that waits for a guard waits only for a caller of its own handle,
\* and a call whose handle nobody is reading can always enter its read, whatever
\* the callers of other handles are doing.
C2_DifferentHandlesIndependent ==
    \A t \in Threads :
        th[t].pc = "acquire" =>
            LET holder == Holder(GuardOf(th[t].direction, th[t].dataset_name))
            IN  /\ holder # NoThread => (InGuardedRead(holder) /\ HandleOf(holder) = HandleOf(t))
                /\ HoldersOf(HandleOf(t)) = {} => ENABLED DataAcquire(t)

\* two callers are inside the reads of two different handles at the same time
C2_Witness ==
    \E t, u \in Threads :
        /\ InGuardedRead(t)
        /\ InGuardedRead(u)
        /\ HandleOf(t) # HandleOf(u)

DatasetNames == UNION {SeqToSet(DATASET_STRUCTURE[s][d]) : s \in {"2ds", "3dz"}, d \in {"nowcast", "forecast"}}

HandleKeys == {p \in (DOMAIN netcdf_datasets) \X DatasetNames : p[2] \in netcdf_datasets[p[1]]}

LockKeys == {p \in (DOMAIN dataset_locks) \X DatasetNames : p[2] \in DOMAIN dataset_locks[p[1]]}

\* C3: once construction has succeeded the handle map and the lock map have the
\* same (direction, sub-dataset) keys: one guard per opened handle, no guard
\* without a handle, also after data() calls.
C3_OneGuardPerHandle ==
    ctor.pc = "constructed" =>
        /\ DOMAIN netcdf_datasets = DOMAIN dataset_locks
        /\ HandleKeys = LockKeys

\* a constructed source in which one sub-dataset opened and another did not,
\* after a data() call has returned a field
C3_Witness ==
    /\ ctor.pc = "constructed"
    /\ \E d \in DOMAIN netcdf_datasets : Cardinality(netcdf_datasets[d]) = 1
    /\ \E t \in Threads : th[t] = Idle("field")

----------------------------------------------------------------------------
(* Properties of the concurrent averaging of HFR_Range                      *)

HfrExport == wr.cls = "hfr"

TaskIds == 1..Len(tasks)

\* the order in which the means entered the result map differs from the order
\* in which their tasks were submitted
CollectedOutOfOrder ==
    /\ Len(variable_means) >= 2
    /\ variable_means[1][1] # wr.variables[1]

\* C4: when the averaging block has ended, the result map is keyed exactly by
\* the requested variables and each value is the mean over the time axis of the
\* slices of its own variable, in whatever order the tasks completed and were
\* collected; the entries collected so far are right at every moment before.
C4_MeansKeyedByVariable ==
    HfrExport =>
        /\ wr.pc \in {"collect", "abort", "derive", "layer"} =>
              \A k \in 1..Len(variable_means) :
                  /\ variable_means[k][1] \in SeqToSet(wr.variables)
                  /\ variable_means[k][2] =
                        MeanOverTime(variable_means[k][1], wr.datetime_indices)
        /\ wr.pc \in {"derive", "layer"} =>
              MeanKeys(variable_means) = SeqToSet(wr.variables)

\* the averaging block has ended with the means collected in another order than
\* the variables were requested in
C4_Witness ==
    /\ HfrExport
    /\ wr.pc \in {"derive", "layer"}
    /\ CollectedOutOfOrder

\* C5: write_rasters derives vector components and writes rasters only when
\* every submitted task has finished and its mean has been collected; while a
\* task is pending or running nothing is derived and nothing is written; the
\* call is not left, normally or by an exception, while a task has not finished.
C5_WaitsForAllTasks ==
    HfrExport =>
        /\ wr.pc \in {"derive", "layer", "write"} =>
              \A i \in TaskIds : tasks[i].state = "done" /\ tasks[i].collected
        /\ wr.pc \in {"returned", "raised"} => \A i \in TaskIds : Completed(i)
        /\ (\E i \in TaskIds : ~ Completed(i)) =>
              /\ written = <<>>
              /\ MeanKeys(variable_means) \subseteq SeqToSet(wr.variables)

\* a raster has been written from the means of several tasks
C5_Witness ==
    /\ HfrExport
    /\ wr.pc = "write"
    /\ Len(tasks) >= 2
    /\ written # <<>>

\* C6: a call in which one averaging task failed while others succeeded ends
\* without raising, holding the mean of every task that succeeded.
C6_PartialFailureKeepsSiblings ==
    (/\ HfrExport
     /\ wr.pc \in {"returned", "raised"}
     /\ \E i \in TaskIds : tasks[i].state = "failed"
     /\ \E i \in TaskIds : tasks[i].state = "done")
    => /\ wr.pc = "returned"
       /\ \A i \in TaskIds :
             tasks[i].state = "done" => tasks[i].variable \in MeanKeys(variable_means)

----------------------------------------------------------------------------
(* Properties of the raster exports                                         *)

ExportEnded == wr.pc \in {"returned", "raised"}

\* the variables whose field reached the write loop
AvailableVariables ==
    {variable_means[k][1] : k \in {m \in 1..Len(variable_means) : variable_means[m][2] # None}}

InvalidPositions == {k \in 1..Len(wr.drivers) : wr.drivers[k] \notin ValidDrivers}

RequestedValidDrivers == SeqToSet(wr.drivers) \cap ValidDrivers

DistinctValidDrivers ==
    /\ Len(wr.drivers) >= 1
    /\ InvalidPositions = {}
    /\ Cardinality(SeqToSet(wr.drivers)) = Len(wr.drivers)

WrittenFor(variable, driver) ==
    \E k \in 1..Len(written) :
        /\ written[k].variable = variable
        /\ written[k].driver = driver
        /\ written[k].path \in DOMAIN files

\* the call got as far as the write loop and nothing but a driver stopped it
ReachedWriteLoop ==
    /\ wr.cls \in {"hfr", "rtofs"}
    /\ ExportEnded
    /\ wr.error \in {NoError, "UnboundLocalError", "DriverError"}
    /\ AvailableVariables # {}

\* C7: a call whose driver list holds one invalid driver among valid ones has,
\* when it ends, written a file for every field and every valid driver of the
\* list.
C7_ValidDriversStillWritten ==
    (/\ ReachedWriteLoop
     /\ Cardinality(InvalidPositions) = 1
     /\ RequestedValidDrivers # {})
    => \A variable \in AvailableVariables, driver \in RequestedValidDrivers :
           WrittenFor(variable, driver)

\* the file write_rasters produces for a field when `driver` is the only driver
FileAlone(variable, driver) ==
    LET field == MeanOf(variable_means, variable)
    IN  IF wr.cls = "hfr"
        THEN LET raster_data == AsFloat32(field)
                 step == HfrDriver(driver, raster_data, HfrGdalArgs(raster_data), NoExtension)
             IN  RasterFile(driver, Flipud(step.raster_data), step.gdal_args)
        ELSE LET step == RtofsDriver(driver, RtofsGdalArgs(field, wr.crop), NoExtension)
             IN  RasterFile(driver, field, step.gdal_args)

\* C8: the file just written for a driver of a list of valid drivers is the file
\* written for that field when the driver is requested alone: same array, same
\* transform, same dimensions, same creation options.
C8_DriverFilesIndependent ==
    (/\ wr.cls \in {"hfr", "rtofs"}
     /\ InvalidPositions = {}
     /\ written # <<>>)
    => LET last == written[Len(written)]
       IN  files[last.path] = FileAlone(last.variable, last.driver)

\* C9: a call with valid, pairwise distinct drivers that returns has created one
\* file per available field and driver, each under a path of its own, and no
\* file of an earlier run is left under any of these paths.
C9_OneFilePerVariableAndDriver ==
    (/\ wr.cls \in {"hfr", "rtofs"}
     /\ wr.pc = "returned"
     /\ DistinctValidDrivers)
    => /\ \A variable \in AvailableVariables, driver \in RequestedValidDrivers :
              WrittenFor(variable, driver)
       /\ Len(written) = Cardinality(AvailableVariables) * Len(wr.drivers)
       /\ \A j, k \in 1..Len(written) : written[j].path = written[k].path => j = k
       /\ \A k \in 1..Len(written) :
              /\ written[k].path \in DOMAIN files
              /\ files[written[k].path] # StaleFile

----------------------------------------------------------------------------
(* Properties of the direction selection                                    *)

\* forecast iff the query time is not before the run time, both truncated to
\* midnight
SelectedDirection(T, R) ==
    IF TruncateToMidnight(T) >= TruncateToMidnight(R) THEN "forecast" ELSE "nowcast"

\* a query on the day of the run, at an earlier hour than the run time
SameDayBeforeRun(T) ==
    /\ TruncateToMidnight(T) = TruncateToMidnight(model_date)
    /\ T < model_date

\* C10: the direction of the handle data() reads and the direction of the file
\* name label of write_rasters are both forecast iff the query time truncated to
\* midnight is not before the run time truncated to midnight (equal resolves to
\* forecast); the data() calls made by write_rasters use the direction of its
\* label.
C10_DirectionForecastIffNotBeforeRun ==
    /\ th[1].pc \in {"acquire", "read", "exit"} =>
          th[1].direction = SelectedDirection(th[1].query, model_date)
    /\ (wr.cls = "rtofs" /\ wr.method = "write_rasters") =>
          /\ wr.direction = SelectedDirection(wr.query, model_date)
          /\ Initial(wr.direction) = Head(wr.time_delta_string)
          /\ wr.data_directions \subseteq {wr.direction}

\* write_rasters has written the field of a query time that lies on the day of
\* the run before the hour of the run: data() read the forecast handle and the
\* label is a forecast label
C10_Witness ==
    /\ wr.cls = "rtofs"
    /\ wr.pc = "returned"
    /\ written # <<>>
    /\ SameDayBeforeRun(wr.query)
    /\ wr.direction = "forecast"
    /\ wr.data_directions = {"forecast"}

----------------------------------------------------------------------------
(* Properties of the time index resolution of HFR_Range                     *)

\* the axis timestamps the call resolved to
ResolvedTimes ==
    IF wr.datetime_indices = None THEN {}
    ELSE {HfrDatetimes[wr.datetime_indices.indices[k]] :
             k \in 1..Len(wr.datetime_indices.indices)}

\* the interval of the call lies strictly between two consecutive axis timestamps
BetweenAxisTimes ==
    \E i \in 1..(Len(HfrDatetimes) - 1) :
        /\ HfrDatetimes[i] < wr.start_datetime
        /\ wr.end_datetime < HfrDatetimes[i + 1]

\* the membership test of the call ran without raising
MembershipTested == HfrExport /\ wr.error # "TypeError"

\* no axis timestamp is one of the hourly timestamps of the rounded interval
NoHourMatches ==
    \A i \in 1..Len(HfrDatetimes) :
        HfrDatetimes[i] \notin hour_range(round_to_hour(wr.start_datetime),
                                          round_to_hour(wr.end_datetime))

\* C11: the indices returned are indices of axis timestamps that are hourly
\* timestamps of the rounded interval, and an interval that lies between two
\* axis timestamps resolves to no index.
C11_OnlyExactHourlyMatches ==
    MembershipTested =>
        /\ ResolvedTimes \subseteq hour_range(round_to_hour(wr.start_datetime),
                                              round_to_hour(wr.end_datetime))
        /\ BetweenAxisTimes => ResolvedTimes = {}

\* C12: when no axis timestamp matches, the resolver returns the no-data marker
\* and the call returns at once: no error, no averaging task, no file written or
\* removed.
C12_EmptyMatchIsNoData ==
    (MembershipTested /\ NoHourMatches) =>
        /\ wr.datetime_indices = None
        /\ wr.pc = "returned"
        /\ wr.error = NoError
        /\ tasks = <<>>
        /\ variable_means = <<>>
        /\ written = <<>>
        /\ \A p \in DOMAIN files : files[p] = StaleFile

\* write_rasters has returned from an interval beyond the time axis
C12_Witness ==
    /\ MembershipTested
    /\ NoHourMatches
    /\ wr.method = "write_rasters"
    /\ Len(wr.variables) >= 2
    /\ wr.pc = "returned"

\* the interval lies wholly before or wholly after the timestamps of `axis`
OutsideAxis(start, end, axis) ==
    \/ \A i \in 1..Len(axis) : end < axis[i]
    \/ \A i \in 1..Len(axis) : axis[i] < start

\* C13: over an interval wholly outside the time axis the constructor does not
\* raise once the dataset is open, and get_datetime_indices does not raise, also
\* when its membership test fails: the outcome is the no-data marker.
C13_OutsideRangeNeverRaises ==
    /\ (/\ hfr.pc # "new"
        /\ hfr.error # "NoDataError"
        /\ OutsideAxis(hfr.start_datetime, hfr.end_datetime, HfrAxis))
       => hfr.pc = "constructed"
    /\ (HfrExport /\ OutsideAxis(wr.start_datetime, wr.end_datetime, HfrDatetimes))
       => /\ wr.error = NoError
          /\ wr.datetime_indices = None

----------------------------------------------------------------------------
(* Properties of the RTOFS_Dataset constructor and of the entry of data()   *)

ConstructionEnded == ctor.pc # "open"

\* C14: construction ends in NoDataError when no handle was opened and succeeds
\* when at least one was; it ends in no other way.
C14_NoHandleMeansNoDataError ==
    ConstructionEnded =>
        /\ ctor.pc \in {"constructed", "NoDataError"}
        /\ ctor.pc = "NoDataError" <=> HandleKeys = {}

\* names that are not variables of RTOFS, and variables the source does not offer
UnsupportedVariables ==
    {"bogus"} \cup {v \in DOMAIN DATA_VARIABLES : source \notin DOMAIN DATA_VARIABLES[v]}

\* C15: in every state of a constructed source, a data() request for an
\* unsupported variable ends in ValueError, for either direction.
C15_UnsupportedVariableIsValueError ==
    ctor.pc = "constructed" =>
        \A variable \in UnsupportedVariables, direction \in SeqToSet(Directions) :
            DataEntry(variable, direction) = "ValueError"

\* the handle a request for `variable` in `direction` resolves to is not open
HandleMissing(variable, direction) ==
    <<direction, DATA_VARIABLES[variable][source][1]>> \notin HandleKeys

\* C16: in every state of a constructed source, a data() request that resolves
\* to a handle that did not open returns no field without raising, whether or
\* not another sub-dataset of the direction opened.
C16_MissingHandleIsUnavailable ==
    ctor.pc = "constructed" =>
        \A variable \in DOMAIN DATA_VARIABLES \ UnsupportedVariables,
           direction \in SeqToSet(Directions) :
            HandleMissing(variable, direction) => DataEntry(variable, direction) = "None"

----------------------------------------------------------------------------
(* Properties of the rasters RTOFS_Dataset exports                          *)

RtofsExport == wr.cls = "rtofs"

\* the files this call has written that are still in the output directory
WrittenFiles ==
    {files[written[k].path] : k \in {m \in 1..Len(written) : written[m].path \in DOMAIN files}}

\* number of columns of a field read with crop=True and with crop=False
CroppedWidth == Len(SliceIndices(RtofsRawLon, StudyArea.west + 360, StudyArea.east + 360))

GlobalWidth ==
    Len(SliceIndices(RtofsRawLon, 180, Max(SeqToSet(RtofsRawLon))))
        + Len(SliceIndices(RtofsRawLon, Min(SeqToSet(RtofsRawLon)), 180))

\* C17: a raster whose array is a study-area selection carries the study-area
\* transform and a raster whose array is the whole grid carries the global
\* transform, for requested and for derived fields.
C17_TransformMatchesCrop ==
    RtofsExport =>
        \A f \in WrittenFiles :
            /\ Width(f.array) \in {CroppedWidth, GlobalWidth}
            /\ Width(f.array) = CroppedWidth => f.args.transform = study_area_transform
            /\ Width(f.array) = GlobalWidth => f.args.transform = global_grid_transform

\* write_rasters has written a derived field of the study area
C17_Witness ==
    /\ RtofsExport
    /\ wr.crop
    /\ \E k \in 1..Len(written) :
          /\ written[k].variable = "mag"
          /\ written[k].path \in DOMAIN files
          /\ Width(files[written[k].path].array) = CroppedWidth

----------------------------------------------------------------------------
(* Properties of the vector field derivation                                *)

Derived == "dir" \in MeanKeys(variable_means) /\ "mag" \in MeanKeys(variable_means)

OnlyCell(name) == MeanOf(variable_means, name).rows[1][1]

NumericInputs == IsNum(OnlyCell("u")) /\ IsNum(OnlyCell("v"))

Ux == OnlyCell("u").num

Uy == OnlyCell("v").num

\* C18: the direction is the angle of (Ux, Uy) measured from the second
\* axis plus a half turn, in degrees, and the magnitude is the root of
\* Ux^2 + Uy^2: (0, 1) gives 180 and 1, (1, 0) gives 270 and 1, each of the
\* four axes gives its quarter turn, each side of the second axis gives its
\* half of the circle, and the direction lies within 0..360.
C18_DirectionAndMagnitude ==
    (program = "vector" /\ Derived /\ NumericInputs) =>
        LET dir == OnlyCell("dir")
            mag == OnlyCell("mag")
        IN  /\ 0 <= dir.lo /\ dir.lo <= dir.hi /\ dir.hi <= 360
            /\ (Ux = 0 /\ Uy = 1) => (dir = Exactly(180) /\ mag = Exactly(1))
            /\ (Ux = 1 /\ Uy = 0) => (dir = Exactly(270) /\ mag = Exactly(1))
            /\ (Ux = 0 /\ Uy > 0) => dir = Exactly(180)
            /\ (Ux > 0 /\ Uy = 0) => dir = Exactly(270)
            /\ (Ux = 0 /\ Uy < 0) => dir = Exactly(360)
            /\ (Ux < 0 /\ Uy = 0) => dir = Exactly(90)
            /\ Ux > 0 => (180 <= dir.lo /\ dir.hi <= 360)
            /\ Ux < 0 => (0 <= dir.lo /\ dir.hi <= 180)
            /\ mag.lo * mag.lo <= Ux * Ux + Uy * Uy
            /\ Ux * Ux + Uy * Uy <= mag.hi * mag.hi
            /\ mag.hi - mag.lo <= 1

\* the derivation has run on a flow due east
C18_Witness ==
    /\ program = "vector"
    /\ Derived
    /\ NumericInputs
    /\ Ux = 1 /\ Uy = 0
    /\ OnlyCell("dir") = Exactly(270)

Component(name) == MeanOf(variable_means, name)

ComponentUnavailable == Component("u") = None \/ Component("v") = None

CellsOf(field) == {<<i, j>> : i \in 1..Height(field), j \in 1..Width(field)}

\* C19: once the derivation has run, a cell that is NaN in u or in v is NaN
\* in 'dir' and in 'mag' and a cell that is a number in both is a number in
\* both outputs; when u or v is None there is no 'dir' and no 'mag'.
C19_MissingCellsStayMissing ==
    (program = "vector" /\ wr.pc # "derive") =>
        IF ComponentUnavailable
        THEN "dir" \notin MeanKeys(variable_means) /\ "mag" \notin MeanKeys(variable_means)
        ELSE /\ Derived
             /\ \A c \in CellsOf(Component("u")) :
                   LET u == Component("u").rows[c[1]][c[2]]
                       v == Component("v").rows[c[1]][c[2]]
                       dir == Component("dir").rows[c[1]][c[2]]
                       mag == Component("mag").rows[c[1]][c[2]]
                   IN  /\ (u = NaN \/ v = NaN) => (dir = NaN /\ mag = NaN)
                       /\ (u # NaN /\ v # NaN) => (dir # NaN /\ mag # NaN)

\* RTOFS has derived both outputs from a u with a NaN cell and a numeric v
C19_Witness ==
    /\ program = "vector"
    /\ wr.cls = "rtofs"
    /\ Derived
    /\ OnlyCell("u") = NaN
    /\ IsNum(OnlyCell("v"))
    /\ OnlyCell("dir") = NaN
    /\ OnlyCell("mag") = NaN

----------------------------------------------------------------------------
(* Properties of the missing cells of exported rasters                      *)

\* the files this call wrote with the GeoTIFF or the GeoPackage driver
DirectlyWrittenFiles ==
    {files[written[k].path] :
        k \in {m \in 1..Len(written) : /\ written[m].driver \in {"GTiff", "GPKG"}
                                       /\ written[m].path \in DOMAIN files
                                       /\ files[written[m].path].driver = written[m].driver}}

\* C20: a file written with GTiff or GPKG declares the fill value as nodata
\* and none of its cells is left NaN (a missing cell of a field is NaN; with
\* the fill value in its place no NaN reaches the file).
C20_MissingCellsHoldFillValue ==
    wr.cls \in {"hfr", "rtofs"} =>
        \A f \in DirectlyWrittenFiles :
            /\ f.args.nodata = FillValue
            /\ \A c \in CellsOf(f.array) : f.array.rows[c[1]][c[2]] # NaN

----------------------------------------------------------------------------
(* Properties of the cells of ASCII grid exports                            *)

\* the files this call wrote with the AAIGrid driver
GridFiles ==
    {files[written[k].path] :
        k \in {m \in 1..Len(written) : /\ written[m].driver = "AAIGrid"
                                       /\ written[m].path \in DOMAIN files
                                       /\ files[written[m].path].driver = "AAIGrid"}}

\* the smaller of the x and y spacings of the source grid of the exporting class
SourceCellSize ==
    IF wr.cls = "hfr" THEN Min({cell_size[1], cell_size[2]})
    ELSE Min({lon_pixel_size, lat_pixel_size})

\* C21: a file written with AAIGrid has a transform whose pixel width equals
\* its pixel height, both the smaller spacing of the source grid.
C21_GridCellsSquare ==
    wr.cls \in {"hfr", "rtofs"} =>
        \A f \in GridFiles :
            /\ f.args.transform.xsize = f.args.transform.ysize
            /\ f.args.transform.xsize = SourceCellSize

----------------------------------------------------------------------------
(* Properties of the row order of exported rasters                          *)

\* the latitude of the source row a cell was computed from
RECURSIVE CellLatitude(_)
CellLatitude(cell) ==
    IF "src" \in DOMAIN cell THEN HfrLat[cell.src[3]]
    ELSE IF "rsrc" \in DOMAIN cell THEN RtofsLat[cell.rsrc[4]]
    ELSE IF "f32" \in DOMAIN cell THEN CellLatitude(cell.f32)
    ELSE IF "mean" \in DOMAIN cell THEN CellLatitude(cell.mean[1])
    ELSE IF "dir" \in DOMAIN cell THEN CellLatitude(cell.dir[1])
    ELSE CellLatitude(cell.mag[1])

RowLatitudes(row) == {CellLatitude(row[j]) : j \in {k \in 1..Len(row) : row[k] # NaN}}

\* every row lies at or north of the rows below it and the first row lies
\* north of the last
NorthernmostFirst(array) ==
    /\ \A i \in 1..Height(array), j \in 1..Height(array) :
          i < j => \A a \in RowLatitudes(array.rows[i]), b \in RowLatitudes(array.rows[j]) : a >= b
    /\ Height(array) >= 2 =>
          \A a \in RowLatitudes(array.rows[1]), b \in RowLatitudes(array.rows[Height(array)]) : a > b

\* C22: every array written to a file by this call has its northernmost row
\* first, on the direct path and on the regridded path.
C22_NorthernmostRowFirst ==
    wr.cls \in {"hfr", "rtofs"} => \A f \in WrittenFiles : NorthernmostFirst(f.array)

\* HFR has written a regridded array of several rows
C22_Witness ==
    /\ wr.cls = "hfr"
    /\ \E f \in GridFiles : Height(f.array) >= 2 /\ NorthernmostFirst(f.array)

----------------------------------------------------------------------------
(* Properties of a run of write_daily_average                               *)

MainEnded == program = "main" /\ main.pc \in {"done", "raised"}

InTrace(entry) == \E k \in 1..Len(main.trace) : main.trace[k] = entry

\* entry `later` is in the trace after the first entry `earlier`
Follows(earlier, later) ==
    \E k \in 1..Len(main.trace), m \in 1..Len(main.trace) :
        k < m /\ main.trace[k] = earlier /\ main.trace[m] = later

\* C23: when the run has ended, a NoDataError logged for the HFR step was
\* followed by the VIIRS step, and a NoDataError logged for the RTOFS block
\* was followed by the WCOFS block and the WCOFS no-DA block, after which
\* write_model_output returned and the run ended normally.
C23_NoDataDoesNotAbort ==
    MainEnded =>
        /\ InTrace("hfr_warn") => Follows("hfr_warn", "viirs")
        /\ InTrace("rtofs_warn") =>
              /\ Follows("rtofs_warn", "wcofs")
              /\ Follows("wcofs", "wcofs_noda")
              /\ main.pc = "done"

ModelOutputWarned ==
    InTrace("rtofs_warn") \/ InTrace("wcofs_warn") \/ InTrace("wcofs_noda_warn")

\* C24: a run that has entered write_model_output and has ended without a
\* NoDataError of a model has ended normally, its last two steps the second
\* populate_json call and the final log entry.
C24_ModelOutputReturns ==
    (MainEnded /\ InTrace("rtofs") /\ ~ ModelOutputWarned) =>
        /\ main.pc = "done"
        /\ Len(main.trace) >= 2
        /\ SubSeq(main.trace, Len(main.trace) - 1, Len(main.trace)) = <<"populate_json", "notice">>

----------------------------------------------------------------------------
(* Release of the handle guard on every exit of data()                      *)

\* every guard that is held is held by a caller that is inside the guarded read
\* of that handle: a call that has ended, however it ended, holds nothing
HeldOnlyInsideRead ==
    \A key \in LockKeys :
        LET holder == dataset_locks[key[1]][key[2]]
        IN  holder # NoThread => (InGuardedRead(holder) /\ HandleOf(holder) = key)

Waiting(t) == th[t].pc = "acquire"

\* C25: on every exit path of data() (a returned field, 'direction unavailable',
\* ValueError, an exception of the slice read) no handle guard stays held by the
\* call that ended, and a call that waits for a handle's guard eventually finds
\* the guard free.  The callers are interchangeable: the waiting call is stated
\* as caller 1, whatever the other callers do.
C25_GuardReleasedOnEveryExit ==
    /\ [](HeldOnlyInsideRead /\ GLOBAL_LOCK = NoThread)
    /\ Waiting(1) ~> (~ Waiting(1) \/ ENABLED DataAcquire(1))

\* the only handle of the source was read by a call that ended with the
\* exception of the slice read, and another call is inside its read
C25_Witness ==
    /\ Cardinality(LockKeys) = 1
    /\ \E t, u \in Threads :
          /\ th[t] = Idle("KeyError")
          /\ InGuardedRead(u)

----------------------------------------------------------------------------
(* The day label of write_model_output and of RTOFS_Dataset.write_rasters   *)

\* write_model_output is inside a write_rasters call of its RTOFS dataset
MainDrivenWrite ==
    /\ main.pc = "rtofs"
    /\ main.step = "write"
    /\ wr.cls = "rtofs"
    /\ wr.pc # "idle"

\* the label write_rasters computes for the day `day_delta` days from the run
\* of the dataset at hand (rtofs.py 225-230)
WrittenLabel(day_delta) ==
    TimeDeltaString(TimeDelta(DataTime(model_datetime + day_delta * HoursPerDay),
                              model_datetime))

RtofsVariablesWritten == {"sst", "sss", "ssh", "ssu", "ssv", "dir", "mag"}

\* C26: for every day delta of the RTOFS range the label write_model_output
\* looks for equals the label write_rasters puts in the file name for
\* time = run date + delta days; different deltas have different labels; and
\* the files write_rasters names for a day are recognised as existing by the
\* next run, which then writes nothing for that day.
C26_SearchedLabelIsWrittenLabel ==
    /\ MainDrivenWrite =>
          /\ wr.time_delta_string = main.time_delta_string
          /\ wr.time = main.day_of_forecast
    /\ \A day_delta \in MODEL_DAY_DELTAS.RTOFS :
          /\ MainLabel(day_delta) = WrittenLabel(day_delta)
          /\ \A other \in MODEL_DAY_DELTAS.RTOFS :
                other # day_delta => MainLabel(other) # MainLabel(day_delta)
          /\ LET written_names == RtofsFilesOf(RtofsVariablesWritten, model_datetime,
                                                day_delta, "tiff")
             IN  /\ ExistingFiles(written_names, day_delta) = written_names
                 /\ \A other \in MODEL_DAY_DELTAS.RTOFS :
                       other # day_delta => ExistingFiles(written_names, other) = {}
    /\ (main.pc # "none" /\ main.content = "complete") =>
          /\ main.step = "unit"
          /\ main.rtofs_dataset = None

\* write_model_output has called write_rasters for the day before the run,
\* and write_rasters has computed its label
C26_Witness ==
    /\ MainDrivenWrite
    /\ main.day_deltas[main.di] = -1
    /\ wr.time_delta_string = <<"n", "0", "0", "1">>

----------------------------------------------------------------------------
(* The columns of an uncropped field                                        *)

\* the fields data() has returned to an uncropped write_rasters call
UncroppedFields ==
    IF wr.cls = "rtofs" /\ ~ wr.crop
    THEN {MeanOf(variable_means, variable) :
            variable \in {name \in MeanKeys(variable_means) :
                            /\ name \in SeqToSet(wr.variables)
                            /\ MeanOf(variable_means, name) # None}}
    ELSE {}

\* the positions of a field's first row that hold source column j
ColumnsFrom(field, j) ==
    {c \in 1..Width(field) :
        LET cell == field.rows[1][c]
        IN  "rsrc" \in DOMAIN cell /\ cell.rsrc[5] = j}

\* the source columns in the order the claim gives: longitudes of 180 and more
\* first, then those below 180
HalvesInOrder(field) ==
    \A c, d \in 1..Width(field) :
        (c < d /\ RtofsRawLon[field.rows[1][c].rsrc[5]] < 180)
            => RtofsRawLon[field.rows[1][d].rsrc[5]] < 180

\* C27: an uncropped field returned by data() holds every source longitude
\* column exactly once, the columns of 180 and more first, and is as wide as
\* the source axis is long, also when a source longitude is exactly 180.
C27_EveryColumnOnce ==
    \A field \in UncroppedFields :
        /\ Width(field) = Len(RtofsRawLon)
        /\ \A j \in 1..Len(RtofsRawLon) : Cardinality(ColumnsFrom(field, j)) = 1
        /\ HalvesInOrder(field)

----------------------------------------------------------------------------
(* The suffix in the names of the files written                             *)

\* the text the call holds for its suffix after lines 371-372 (HFR_Range) or
\* line 223 (RTOFS_Dataset); None or the empty text when no suffix was passed
SuffixAbsent == wr.filename_suffix = None \/ wr.filename_suffix = Txt(<<>>)

\* a file name without its extension
Stem(path) == SubSeq(path, 1, Len(path) - 2)

\* the token that ends the name before the suffix: the variable for HFR_Range,
\* the last digit of the day label for RTOFS_Dataset
LastBeforeSuffix(k) ==
    IF wr.cls = "hfr" THEN written[k].variable
    ELSE wr.time_delta_string[Len(wr.time_delta_string)]

EndsWith(name, part) ==
    /\ Len(part) <= Len(name)
    /\ SubSeq(name, Len(name) - Len(part) + 1, Len(name)) = part

\* C28: a file written without a suffix has a name that ends with the variable
\* (HFR_Range) or the day label (RTOFS_Dataset) right before the extension, no
\* text standing for the absent suffix; with a suffix the name ends with one
\* underscore and the suffix.
C28_SuffixOnlyWhenGiven ==
    wr.cls \in {"hfr", "rtofs"} =>
        \A k \in 1..Len(written) :
            LET stem == Stem(written[k].path)
            IN  IF SuffixAbsent
                THEN /\ EndsWith(stem, <<LastBeforeSuffix(k)>>)
                     /\ ~ Contains(stem, <<"None">>)
                ELSE EndsWith(stem, <<LastBeforeSuffix(k)>> \o wr.filename_suffix.text)

----------------------------------------------------------------------------
(* The time axis and the measurement arrays of a constructed HFR_Range      *)

\* the timestamp of the dataset that a time slice of a measurement array was
\* read from; the slice's cells carry their position on the dataset's axis
SliceTimes(slice) ==
    {HfrAxis[slice[p[1]][p[2]].src[2]] :
        p \in {q \in (1..Len(HfrLat)) \X (1..Len(HfrLon)) : slice[q[1]][q[2]] # NaN}}

\* position i is on the stored axis and on the array of the variable, and the
\* array's slice there was measured at the axis' timestamp there
SameTimestamp(variable, i) ==
    /\ i \in 1..Len(HfrDatetimes)
    /\ i \in 1..Len(HfrData(variable))
    /\ SliceTimes(HfrData(variable)[i]) = {HfrDatetimes[i]}

\* the indices write_rasters got from get_datetime_indices
SelectedIndices ==
    IF wr.cls = "hfr" /\ "indices" \in DOMAIN wr.datetime_indices
    THEN SeqToSet(wr.datetime_indices.indices)
    ELSE {}

\* C29: in a constructed HFR_Range the stored time axis and every measurement
\* array are the same slice [start_index, end_index) of the dataset: the axis
\* is as long as each array has time slices, position by position they refer
\* to the same timestamp, and every index get_datetime_indices returned is a
\* position of every array that refers to the timestamp the axis has there.
C29_AxisAndArraysCutAlike ==
    hfr.pc = "constructed" =>
        \A variable \in SeqToSet(MEASUREMENT_VARIABLES) :
            /\ Len(HfrData(variable)) = Len(HfrDatetimes)
            /\ \A i \in 1..Len(HfrData(variable)) : SameTimestamp(variable, i)
            /\ \A i \in SelectedIndices : SameTimestamp(variable, i)

\* an HFR_Range whose interval starts after the first timestamp of the dataset
\* has averaged the slices that get_datetime_indices selected
C29_Witness ==
    /\ hfr.pc = "constructed"
    /\ hfr.start_index > 0
    /\ SelectedIndices # {}
    /\ Len(variable_means) > 0

=========================================================================
